---- MODULE Spec2Model ----
(***************************************************************************)
(* Agent execution engine of django-manus: BaseAgent (app/agent/base.py)   *)
(* and ToolCallAgent (app/agent/toolcall.py).                              *)
(*                                                                         *)
(* Strings are modelled as sequences of tokens (a token stands for one or  *)
(* more characters), so that joining, prefixing and truncating are real    *)
(* operations on them.  The empty sequence is the empty (falsy) string.    *)
(***************************************************************************)
EXTENDS Integers, Sequences, FiniteSets, TLC

\* ------------------------------------------------------------------ bounds
MaxWork == 2          \* steps reserved by runs, per behaviour
MaxCalls == 3         \* direct update_memory calls, per behaviour
SmallMemory == 2      \* a small configured Memory.max_messages
MaxFiles == 1         \* update_files calls that create a task, per behaviour
MaxPath == 3          \* tokens of an input path
MaxWrites == 2        \* write_file calls, per behaviour
MaxEnvs == 2          \* remote environments provisioned, per behaviour

VARIABLES
    state,               \* BaseAgent.state
    current_step,        \* BaseAgent.current_step
    max_steps,           \* BaseAgent.max_steps
    duplicate_threshold, \* BaseAgent.duplicate_threshold
    next_step_prompt,    \* BaseAgent.next_step_prompt
    tool_choices,        \* ToolCallAgent.tool_choices
    max_observe,         \* ToolCallAgent.max_observe (0 = None)
    max_messages,        \* Memory.max_messages
    hookInstalled,       \* persist_message_hook is not None
    hookAsync,           \* the persistence hooks are coroutine functions
    conversation_id,     \* BaseAgent.conversation_id ("" = None)
    memory,              \* Memory.messages
    hookCalls,           \* the calls received by persist_message_hook, in order
    pending_persist_tasks, \* BaseAgent.pending_persist_tasks (ids of tasks)
    taskLog,             \* history: kind and status of every hook task created
    appendLog,           \* history: every message ever appended to Memory
    tool_calls,          \* ToolCallAgent.tool_calls
    pc,                  \* position of the run() invocation in progress
    actIdx,              \* index of the next command in act()'s loop
    actResults,          \* act()'s local list results
    results,             \* run()'s local list results
    stepsRun,            \* history: step() calls made by the current run()
    work,                \* history: budget used by runs and direct calls
    toolLog,             \* history: tools actually invoked, in order
    nextId,              \* ids handed out by the LLM to its tool calls
    entry,               \* history: snapshot taken when run() was entered
    event,               \* the operation that produced the current state
    work_dir,            \* config.sandbox.work_dir, DaytonaSandboxClient._work_dir
    host,                \* the platform pathlib runs on: "posix" or "windows"
    path,                \* the path a caller hands to the sandbox interfaces
    via,                 \* the interface the caller uses: "client" or "operator"
    files,               \* the sandbox file system: stored bytes by path
    written,             \* history: the writes that stored their content
    fsop,                \* the sandbox operation that produced the current state
    session,             \* DaytonaSandboxClient.sandbox (0 = None, else an environment)
    daytona,             \* DaytonaSandboxClient._daytona is not None
    envs,                \* the remote environments provisioned: "live" or "deleted"
    binding              \* the conversation the sandbox client is bound to

vars == <<state, current_step, max_steps, duplicate_threshold, next_step_prompt,
          tool_choices, max_observe, max_messages, hookInstalled,
          hookAsync, conversation_id, memory, hookCalls, pending_persist_tasks,
          taskLog, appendLog, tool_calls, pc, actIdx, actResults, results,
          stepsRun, work, toolLog, nextId, entry, event, work_dir, host,
          path, via, files, written, fsop, session, daytona, envs, binding>>

\* The sandbox, which no operation of the agent loop touches.
sandbox == <<work_dir, host, path, via, files, written, fsop, session, daytona, envs,
             binding>>

config == <<max_steps, duplicate_threshold, tool_choices, max_observe,
            max_messages, hookInstalled, hookAsync, conversation_id>>

\* --------------------------------------------------------------- constants
AgentState == {"IDLE", "RUNNING", "FINISHED", "ERROR"}
ToolChoice == {"auto", "required", "none"}
Roles == {"user", "system", "assistant", "tool"}

TOOL_CALL_REQUIRED == <<"Tool calls required but none provided">>
NO_STEPS == <<"No steps executed">>
NL == "<newline>"
NUDGE == <<"The LLM does not call any tool. Consider whether the last response is the final answer. If it is, invoke the terminate tool.">>
GUIDANCE_ADDED == <<"Guidance added: Consider using terminate tool if this is final answer">>
THINKING_COMPLETE == <<"Thinking complete - no action needed">>
STUCK_PROMPT == <<"Observed duplicate responses. Consider new strategies and avoid repeating ineffective paths already attempted.">>
NEXT_STEP_PROMPT == <<"NEXT_STEP_PROMPT">>
TOKEN_LIMIT_MSG == <<"Maximum token limit reached, cannot continue execution: ", "detail">>
THINK_ERROR_MSG == <<"Error encountered while processing: ", "No response received from the LLM">>
ERROR_PREFIX == "Error: "
DefaultMaxMessages == 100

\* The registry and the special-tool set.  "Finish" is registered with a
\* capital letter and configured in lower case, "Terminate" is a name the
\* model may produce that is special by case-insensitive match only.
available_tools == {"terminate", "Finish", "bash"}
special_tool_names == <<"terminate", "finish">>

Lower(name) ==
    CASE name = "Terminate" -> "terminate"
      [] name = "Finish" -> "finish"
      [] OTHER -> name

\* ---------------------------------------------------------------- strings
RECURSIVE Join(_, _)
Join(lines, sep) ==
    IF lines = <<>> THEN <<>>
    ELSE IF Len(lines) = 1 THEN lines[1]
    ELSE lines[1] \o sep \o Join(Tail(lines), sep)

Truncate(s, n) == IF Len(s) <= n THEN s ELSE SubSeq(s, 1, n)

\* --------------------------------------------------------------- messages
NoKw == [name |-> "", tool_call_id |-> 0, tool_calls |-> <<>>]

Message(role, content, persist, kw) ==
    [role |-> role,
     content |-> content,
     name |-> IF role = "tool" THEN kw.name ELSE "",
     tool_call_id |-> IF role = "tool" THEN kw.tool_call_id ELSE 0,
     tool_calls |-> IF role = "assistant" THEN kw.tool_calls ELSE <<>>,
     persist |-> persist]

HookCall(role, content, kw) ==
    [role |-> role, content |-> content, name |-> kw.name,
     tool_call_id |-> kw.tool_call_id, tool_calls |-> kw.tool_calls]

add_message(messages, msg) ==
    LET m == Append(messages, msg)
    IN  IF Len(m) > max_messages
        THEN SubSeq(m, Len(m) - max_messages + 1, Len(m))
        ELSE m

Store == [memory |-> memory, hookCalls |-> hookCalls, appendLog |-> appendLog,
          err |-> "none"]

\* Faulty variant of update_memory: the persist flag is ignored.
update_memory_ignores_persist(s, role, content, persist, kw) ==
    IF role \notin Roles
    THEN [s EXCEPT !.err = "ValueError"]
    ELSE LET msg == Message(role, content, persist, kw)
         IN  [memory |-> add_message(s.memory, msg),
              hookCalls |-> IF hookInstalled
                            THEN Append(s.hookCalls, HookCall(role, content, kw))
                            ELSE s.hookCalls,
              appendLog |-> Append(s.appendLog, msg),
              err |-> s.err]

\* Faulty variant of update_memory: the role is not validated.
update_memory_any_role(s, role, content, persist, kw) ==
    LET msg == Message(role, content, persist, kw)
    IN  [memory |-> add_message(s.memory, msg),
         hookCalls |-> IF persist /\ hookInstalled
                       THEN Append(s.hookCalls, HookCall(role, content, kw))
                       ELSE s.hookCalls,
         appendLog |-> Append(s.appendLog, msg),
         err |-> s.err]

\* Faulty variant of update_memory: the newest hook invocation overtakes the
\* earlier ones.
update_memory_hook_overtakes(s, role, content, persist, kw) ==
    IF role \notin Roles
    THEN [s EXCEPT !.err = "ValueError"]
    ELSE LET msg == Message(role, content, persist, kw)
         IN  [memory |-> add_message(s.memory, msg),
              hookCalls |-> IF persist /\ hookInstalled
                            THEN <<HookCall(role, content, kw)>> \o s.hookCalls
                            ELSE s.hookCalls,
              appendLog |-> Append(s.appendLog, msg),
              err |-> s.err]

update_memory(s, role, content, persist, kw) ==
    IF role \notin Roles
    THEN [s EXCEPT !.err = "ValueError"]
    ELSE LET msg == Message(role, content, persist, kw)
         IN  [memory |-> add_message(s.memory, msg),
              hookCalls |-> IF persist /\ hookInstalled
                            THEN Append(s.hookCalls, HookCall(role, content, kw))
                            ELSE s.hookCalls,
              appendLog |-> Append(s.appendLog, msg),
              err |-> s.err]

\* A hook task: its kind ("message" or "files") and its status.
Task(kind) == [kind |-> kind, status |-> "pending"]

\* loop.create_task(result); self.pending_persist_tasks.append(task), done
\* n times
create_tasks(log, tasks, kind, n) ==
    [taskLog |-> log \o [i \in 1..n |-> Task(kind)],
     pending_persist_tasks |-> tasks \o [i \in 1..n |-> Len(log) + i]]

\* The agent after the update_memory calls that led to s: a coroutine hook
\* was wrapped in a task and tracked once for every call it received.
SetStore(s) ==
    /\ memory' = s.memory
    /\ hookCalls' = s.hookCalls
    /\ appendLog' = s.appendLog
    /\ LET c == create_tasks(taskLog, pending_persist_tasks, "message",
                             IF hookAsync THEN Len(s.hookCalls) - Len(hookCalls)
                             ELSE 0)
       IN  /\ taskLog' = c.taskLog
           /\ pending_persist_tasks' = c.pending_persist_tasks

\* ------------------------------------------------------------ stuck check
DuplicateCount(messages) ==
    Cardinality({i \in 1..(Len(messages) - 1) :
                    /\ messages[i].role = "assistant"
                    /\ messages[i].content = messages[Len(messages)].content})

\* Faulty variant of is_stuck: strict comparison with the threshold.
is_stuck_strict(messages) ==
    IF Len(messages) < 2 THEN FALSE
    ELSE IF messages[Len(messages)].content = <<>> THEN FALSE
    ELSE DuplicateCount(messages) > duplicate_threshold

is_stuck(messages) ==
    IF Len(messages) < 2 THEN FALSE
    ELSE IF messages[Len(messages)].content = <<>> THEN FALSE
    ELSE DuplicateCount(messages) >= duplicate_threshold

handle_stuck_state(prompt) == STUCK_PROMPT \o <<NL>> \o prompt


\* --------------------------------------------------------- tool execution
_is_special_tool(name) ==
    \E i \in 1..Len(special_tool_names) : Lower(name) = Lower(special_tool_names[i])

\* json.loads(arguments or "{}") succeeds
JsonParses(arguments) == arguments \in {"", "{}"}

\* What a registered tool does when it is invoked (ToolCollection.execute):
\* it returns a result or raises.
ToolOutcomes == {"output", "raise"}

\* send_notification_async publishes to the channel layer and lets its
\* failures through.  Notifications are sent only with a conversation_id; each
\* publish call succeeds (TRUE) or fails (FALSE).
NotifyOutcomes == IF conversation_id = "" THEN {TRUE} ELSE BOOLEAN

\* The outcomes of the publish calls one execute_tool makes: it makes a
\* second call only after the first one failed.
NotifySeqs == {<<a, b>> : a \in NotifyOutcomes, b \in NotifyOutcomes} \ {<<TRUE, FALSE>>}

\* execute_tool: the observation it returns, whether the tool was invoked,
\* whether the tool returned, whether the state became FINISHED, and the
\* exception that leaves execute_tool, if any.
execute_tool(command, outcome, sink) ==
    LET name == command.name
        obs(o, inv, comp, fin, exc) ==
            [observation |-> o, invoked |-> inv, completed |-> comp,
             finished |-> fin, raised |-> exc]
        problem == <<ERROR_PREFIX, "Tool '", name, "' encountered a problem: ", "exc">>
    IN  IF name = ""
        THEN obs(<<ERROR_PREFIX, "Invalid command format">>, FALSE, FALSE, FALSE, "none")
        ELSE IF name \notin available_tools
        THEN obs(<<ERROR_PREFIX, "Unknown tool '", name, "'">>, FALSE, FALSE, FALSE, "none")
        ELSE IF ~JsonParses(command.arguments)
        THEN obs(<<ERROR_PREFIX, "Error parsing arguments for ", name,
                   ": Invalid JSON format">>,
                 FALSE, FALSE, FALSE, IF sink[1] THEN "none" ELSE "NotifyError")
        ELSE IF outcome = "raise"
        THEN obs(problem, TRUE, FALSE, FALSE, IF sink[1] THEN "none" ELSE "NotifyError")
        ELSE IF _is_special_tool(name) /\ ~sink[1]
        THEN \* the "agent.finished" notification fails inside the try block
             obs(problem, TRUE, TRUE, FALSE, IF sink[2] THEN "none" ELSE "NotifyError")
        ELSE obs(IF outcome = "output"
                 THEN <<"Observed output of cmd ", name, " executed:", NL, "out">>
                 ELSE <<"Cmd ", name, " completed with no output">>,
                 TRUE, TRUE, _is_special_tool(name), "none")

\* ------------------------------------------------------------ LLM answers
Call(name, arguments) == [name |-> name, arguments |-> arguments]

Response(content, calls) == [kind |-> "response", content |-> content, calls |-> calls]
Failure(kind) == [kind |-> kind, content |-> <<>>, calls |-> <<>>]

\* The answers of llm.ask_tool: a response with content and tool calls, no
\* response at all, or one of the failures think() distinguishes.
LLMResponses ==
    { Response(<<>>, <<>>),
      Response(<<"a">>, <<>>),
      Response(<<>>, <<Call("bash", "{}")>>),
      Response(<<"a">>, <<Call("bash", "{oops"), Call("bash", "{}")>>),
      Response(<<>>, <<Call("terminate", "{}")>>),
      Response(<<"a">>, <<Call("Finish", "{}"), Call("bash", "{}")>>),
      Response(<<>>, <<Call("Terminate", "{}")>>),
      Response(<<>>, <<Call("nosuch", "{}")>>),
      Failure("no_response"),
      Failure("token_limit"),
      Failure("value_error"),
      Failure("error") }

WithIds(calls, base) ==
    [i \in 1..Len(calls) |->
        [id |-> base + i, name |-> calls[i].name, arguments |-> calls[i].arguments]]

\* ------------------------------------------------------------------ think
\* The part of think() after the ephemeral prompt: the LLM answer resp is
\* turned into memory updates, the pending tool calls, the state, the
\* decision to act, and the exception that leaves think(), if any.  notified
\* is FALSE when one of think()'s publish calls fails; none of them is made
\* before tool_calls is set or after a message is recorded, except the one of
\* the token-limit handler, which precedes everything.
think(s, resp, notified) ==
    LET calls == WithIds(resp.calls, nextId)
        content == resp.content
        out(st, tc, ag, go, exc) ==
            [store |-> st, tool_calls |-> tc, state |-> ag, act |-> go, raised |-> exc]
    IN  CASE ~notified /\ resp.kind = "token_limit" ->
                out(s, tool_calls, state, FALSE, "NotifyError")
          [] ~notified /\ resp.kind = "no_response" ->
                out(s, <<>>, state, FALSE, "NotifyError")
          [] ~notified /\ resp.kind = "response" ->
                out(s, calls, state, FALSE, "NotifyError")
          [] resp.kind = "value_error" ->
                out(s, tool_calls, state, FALSE, "ValueError")
          [] resp.kind = "error" ->
                out(s, tool_calls, state, FALSE, "Exception")
          [] resp.kind = "token_limit" ->
                out(update_memory(s, "assistant", TOKEN_LIMIT_MSG, TRUE, NoKw),
                    tool_calls, "FINISHED", FALSE, "none")
          [] resp.kind = "no_response" ->
                out(update_memory(s, "assistant", THINK_ERROR_MSG, TRUE, NoKw),
                    <<>>, state, FALSE, "none")
          [] OTHER ->
                IF tool_choices = "none"
                THEN IF content # <<>>
                     THEN out(update_memory(s, "assistant", content, TRUE, NoKw),
                              calls, state, TRUE, "none")
                     ELSE out(s, calls, state, FALSE, "none")
                ELSE IF tool_choices = "required" /\ calls = <<>>
                THEN out(IF content # <<>>
                         THEN update_memory(s, "assistant", content, TRUE, NoKw)
                         ELSE s,
                         calls, state, TRUE, "none")
                ELSE IF tool_choices = "auto" /\ calls = <<>>
                THEN out(IF content # <<>>
                         THEN update_memory(s, "assistant", content, TRUE, NoKw)
                         ELSE s,
                         calls, state, content # <<>>, "none")
                ELSE IF \E i \in 1..Len(calls) : _is_special_tool(calls[i].name)
                THEN out(s, calls, state, calls # <<>>, "none")
                ELSE out(update_memory(s, "assistant", content, TRUE,
                                       [NoKw EXCEPT !.tool_calls = calls]),
                         calls, state, calls # <<>>, "none")


\* -------------------------------------------------------------------- run
\* event: the operation op that produced the current state, the role or
\* tool name it concerned, a flag (update_memory: persist; is_stuck: the
\* result; loop_exit: the state was FINISHED; think: it decided to act;
\* act_tool: the tool was invoked and returned; loop_exit and run_raise out
\* of the RUNNING scope: value is the states the scope assigned on exit),
\* the exception it raised, the value it returned or recorded, and whether it
\* ran the tool cleanups of ToolCallAgent.cleanup() and SANDBOX_CLIENT.cleanup();
\* cleaned lists the tool cleanups that were awaited, each with its outcome.
Ev(op, name, flag, raised, value, cleanup, release) ==
    [op |-> op, name |-> name, flag |-> flag, raised |-> raised, value |-> value,
     cleanup |-> cleanup, release |-> release, cleaned |-> <<>>]

StepLine(n, step_result) == <<"Step ", ToString(n), ": ">> \o step_result
TerminatedLine(n) == <<"Terminated: Reached max steps (", ToString(n), ")">>

Requests == {<<>>, <<"request">>}

\* DaytonaSandboxClient._conversation_id and _sandbox_conv_id ("" = None) of
\* a new client, the conversation whose volume or recorded files the
\* session was provisioned with (attached, "" = none), and whether it was
\* the volume.
NoBinding == [conversation |-> "", sandbox_conv |-> "", attached |-> "",
              mounted |-> FALSE]

\* No sandbox has been created and no sandbox interface is called.
InitSandbox ==
    /\ work_dir = <<"/", "home">>
    /\ host = "posix"
    /\ path = <<>>
    /\ via = "operator"
    /\ files = <<>>
    /\ written = <<>>
    /\ fsop = [op |-> "none"]
    /\ session = 0
    /\ daytona = FALSE
    /\ envs = <<>>
    /\ binding = NoBinding

InitAgent ==
    /\ state = "IDLE"
    /\ current_step = 0
    /\ memory = <<>>
    /\ hookCalls = <<>>
    /\ pending_persist_tasks = <<>>
    /\ taskLog = <<>>
    /\ appendLog = <<>>
    /\ tool_calls = <<>>
    /\ pc = "idle"
    /\ actIdx = 0
    /\ actResults = <<>>
    /\ results = <<>>
    /\ stepsRun = 0
    /\ toolLog = <<>>
    /\ nextId = 0
    /\ entry = [log |-> 0, hook |-> 0, step |-> 0, request |-> <<>>,
                state |-> "IDLE"]
    /\ event = Ev("init", "", FALSE, "none", <<>>, FALSE, FALSE)

\* An agent with a message hook, a conversation, the default Memory bound and
\* the default next-step prompt, about to run; duplicate_threshold is set low
\* enough for the stuck check to fire within MaxWork steps.  The runs of an
\* agent without a conversation are the runs in which every publish call
\* succeeds.
Init ==
    /\ InitAgent
    /\ InitSandbox
    /\ work = 0
    /\ max_steps \in 0..MaxWork
    /\ duplicate_threshold = 1
    /\ next_step_prompt = NEXT_STEP_PROMPT
    /\ tool_choices \in ToolChoice
    /\ max_observe \in IF tool_choices = "auto" THEN {0, 2} ELSE {0}
    /\ max_messages = DefaultMaxMessages
    /\ hookInstalled = TRUE
    /\ hookAsync = FALSE
    /\ conversation_id = "conv"

\* run() is entered with the agent IDLE: the request is recorded and the
\* RUNNING scope is opened.
RunStart(request) ==
    /\ pc = "idle"
    /\ LET cost == IF max_steps > current_step THEN max_steps - current_step ELSE 1
       IN  /\ work + cost <= MaxWork
           /\ work' = work + cost
    /\ state = "IDLE"
    /\ LET s == IF request # <<>>
                THEN update_memory(Store, "user", request, TRUE, NoKw)
                ELSE Store
       IN  SetStore(s)
    /\ state' = "RUNNING"
    /\ results' = <<>>
    /\ stepsRun' = 0
    /\ pc' = "loop"
    /\ entry' = [log |-> Len(appendLog), hook |-> Len(hookCalls),
                 step |-> current_step, request |-> request, state |-> state]
    /\ event' = Ev("run_start", "", FALSE, "none", request, FALSE, FALSE)
    /\ UNCHANGED <<current_step, config, sandbox, next_step_prompt, tool_calls, actIdx,
                   actResults, toolLog, nextId>>

\* Faulty variant of state_context_exit: a failure leaves the state at ERROR.
state_context_exit_no_revert(previous_state, failed) ==
    IF failed THEN <<"ERROR">> ELSE <<previous_state>>

\* state_context, leaving the scope: the values assigned to the state, in
\* order.  previous_state is the state the scope was entered from.
state_context_exit(previous_state, failed) ==
    IF failed THEN <<"ERROR", previous_state>> ELSE <<previous_state>>

\* ToolCallAgent.cleanup(): a notification, the cleanup of every tool, a
\* notification.  failing names the publish call that fails, if any.
CleanupSinks == IF conversation_id = "" THEN {"none"} ELSE {"none", "start", "done"}

\* The registry in iteration order, the tools that expose an async cleanup,
\* and the sets of tools whose cleanup raises.
tool_map == <<"terminate", "Finish", "bash">>
HasCleanup == {"Finish", "bash"}
BrokenCleanups == {{}, {"Finish"}}

\* The for-loop of cleanup(): the cleanup of each tool that has one is
\* awaited; a failure is logged and the loop goes on.
RECURSIVE cleaned(_, _)
cleaned(tools, broken) ==
    IF tools = <<>> THEN <<>>
    ELSE IF Head(tools) \notin HasCleanup THEN cleaned(Tail(tools), broken)
    ELSE <<[tool |-> Head(tools), failed |-> Head(tools) \in broken]>>
             \o cleaned(Tail(tools), broken)

cleanup(failing, broken) ==
    [tools |-> failing # "start",
     cleaned |-> IF failing = "start" THEN <<>> ELSE cleaned(tool_map, broken),
     raised |-> IF failing = "none" THEN "none" ELSE "NotifyError"]

\* run() is invoked while the agent is not IDLE, at a point where the run in
\* progress is suspended (awaiting the LLM): BaseAgent.run raises, and the
\* finally clause of ToolCallAgent.run runs cleanup().
RunReject(request, failing) ==
    /\ pc = "think"
    /\ state # "IDLE"
    /\ \E broken \in BrokenCleanups :
          LET c == cleanup(failing, broken)
          IN  event' = [Ev("run_reject", "", FALSE,
                           IF c.raised # "none" THEN c.raised ELSE "RuntimeError",
                           request, c.tools, FALSE) EXCEPT !.cleaned = c.cleaned]
    /\ UNCHANGED <<state, current_step, config, sandbox, next_step_prompt, memory,
                   hookCalls, appendLog, pending_persist_tasks, taskLog,
                   tool_calls, pc, actIdx, actResults,
                   results, stepsRun, work, toolLog, nextId, entry>>

\* run() is invoked while the run in progress is suspended after its loop,
\* awaiting its pending persistence tasks: the RUNNING scope of that run was
\* left and the state is IDLE again, so the precondition passes, the request
\* is recorded and a second RUNNING scope is opened.  The two overlapping
\* invocations are followed no further (pc "overlap").
RunOverlap(request) ==
    /\ pc = "barrier"
    /\ state = "IDLE"
    /\ LET s == IF request # <<>>
                THEN update_memory(Store, "user", request, TRUE, NoKw)
                ELSE Store
       IN  SetStore(s)
    /\ state' = "RUNNING"
    /\ pc' = "overlap"
    /\ event' = Ev("run_overlap", "", FALSE, "none", request, FALSE, FALSE)
    /\ UNCHANGED <<current_step, config, sandbox, next_step_prompt, tool_calls,
                   actIdx, actResults, results, stepsRun, work, toolLog, nextId,
                   entry>>

\* An exception leaves the RUNNING scope: the scope sets ERROR and reverts to
\* IDLE, the exception leaves BaseAgent.run and ToolCallAgent.run runs
\* cleanup(), whose own failure replaces the exception.  name is the LLM
\* outcome during which think() raised, if it was think() that raised.
RunRaiseFrom(exc, name) ==
    /\ pc' = "idle"
    /\ LET left == state_context_exit(entry.state, TRUE)
       IN  /\ state' = left[Len(left)]
           /\ \E failing \in CleanupSinks, broken \in BrokenCleanups :
                 LET c == cleanup(failing, broken)
                 IN  event' = [Ev("run_raise", name, FALSE,
                                  IF c.raised # "none" THEN c.raised ELSE exc,
                                  left, c.tools, FALSE) EXCEPT !.cleaned = c.cleaned]
    /\ UNCHANGED <<results, next_step_prompt>>

RunRaise(exc) == RunRaiseFrom(exc, "")

\* The while condition holds: the step counter is advanced, the step is
\* announced and step() starts.
LoopEnter(notified) ==
    /\ pc = "loop"
    /\ current_step < max_steps /\ state # "FINISHED"
    /\ current_step' = current_step + 1
    /\ IF notified
       THEN /\ stepsRun' = stepsRun + 1
            /\ pc' = "think"
            /\ event' = Ev("loop_enter", "", FALSE, "none", <<>>, FALSE, FALSE)
            /\ UNCHANGED <<state, results, next_step_prompt>>
       ELSE /\ RunRaise("NotifyError")
            /\ UNCHANGED stepsRun
    /\ UNCHANGED <<config, sandbox, memory, hookCalls, appendLog, pending_persist_tasks,
                   taskLog, tool_calls, actIdx,
                   actResults, work, toolLog, nextId, entry>>

\* pending = [t for t in self.pending_persist_tasks if not t.done()]
pending(tasks) == SelectSeq(tasks, LAMBDA id : taskLog[id].status = "pending")

\* Faulty variant of gathered: run() goes on without awaiting the tasks.
gathered_at_once(tasks) == TRUE

\* await asyncio.gather(*pending, return_exceptions=True) returns: every task
\* it was given has finished, with a result or with an exception.
gathered(tasks) == pending(tasks) = <<>>

\* The while condition fails: max-steps handling, then the RUNNING scope is
\* left and the state reverts to the state before entry (IDLE).  With hook
\* tasks still pending run() now awaits them (pc "barrier").
LoopExit ==
    /\ pc = "loop"
    /\ ~(current_step < max_steps /\ state # "FINISHED")
    /\ IF current_step >= max_steps
       THEN /\ current_step' = 0
            /\ results' = Append(results, TerminatedLine(max_steps))
       ELSE UNCHANGED <<current_step, results>>
    /\ LET left == state_context_exit(entry.state, FALSE)
       IN  /\ state' = left[Len(left)]
           /\ event' = Ev("loop_exit", "", state = "FINISHED", "none", left,
                          FALSE, FALSE)
    /\ pc' = IF pending(pending_persist_tasks) # <<>> THEN "barrier" ELSE "post"
    /\ UNCHANGED <<config, sandbox, next_step_prompt, memory, hookCalls, appendLog,
                   pending_persist_tasks, taskLog,
                   tool_calls, actIdx, actResults, stepsRun, work, toolLog,
                   nextId, entry>>

\* After the loop: once the hook tasks run() was waiting for have finished,
\* the list of tasks is cleared; then the sandbox is released, BaseAgent.run
\* returns its trace, and the finally clause of ToolCallAgent.run runs
\* cleanup(), whose failure replaces the return.  Tool-message compaction
\* finds no message above its size threshold.
RunFinish(failing) ==
    /\ pc \in {"post", "barrier"}
    /\ pc = "barrier" => gathered(pending_persist_tasks)
    /\ pending_persist_tasks' = IF pc = "barrier" THEN <<>> ELSE pending_persist_tasks
    /\ pc' = "idle"
    /\ \E broken \in BrokenCleanups :
          LET c == cleanup(failing, broken)
              ended == IF c.raised = "none"
                       THEN Ev("run_return", "", FALSE, "none",
                               IF results # <<>> THEN Join(results, <<NL>>) ELSE NO_STEPS,
                               c.tools, TRUE)
                       ELSE Ev("run_raise", "", FALSE, c.raised, <<>>, c.tools, TRUE)
          IN  event' = [ended EXCEPT !.cleaned = c.cleaned]
    /\ UNCHANGED <<state, current_step, config, sandbox, next_step_prompt, memory,
                   hookCalls, appendLog, taskLog, tool_calls, actIdx,
                   actResults, results, stepsRun, work, toolLog, nextId, entry>>

\* The tail of one loop iteration, after step() returned step_result.
FinishStep(messages, step_result) ==
    /\ next_step_prompt' = IF is_stuck(messages)
                           THEN handle_stuck_state(next_step_prompt)
                           ELSE next_step_prompt
    /\ results' = Append(results, StepLine(current_step, step_result))
    /\ pc' = "loop"

\* One call of step(): the ephemeral next-step prompt, the LLM answer resp,
\* and, when think() decides not to act, the end of the loop iteration.
Think(resp, notified) ==
    /\ pc = "think"
    /\ LET s1 == IF next_step_prompt # <<>>
                 THEN update_memory(Store, "user", next_step_prompt, FALSE, NoKw)
                 ELSE Store
           t == think(s1, resp, notified)
       IN  /\ SetStore(t.store)
           /\ tool_calls' = t.tool_calls
           /\ IF t.raised # "none"
              THEN /\ RunRaiseFrom(t.raised, resp.kind)
                   /\ UNCHANGED <<actIdx, actResults>>
              ELSE IF t.act
              THEN /\ state' = t.state
                   /\ pc' = "act"
                   /\ actIdx' = 1
                   /\ actResults' = <<>>
                   /\ event' = Ev("think", resp.kind, TRUE, "none", resp.content,
                                  FALSE, FALSE)
                   /\ UNCHANGED <<results, next_step_prompt>>
              ELSE /\ state' = t.state
                   /\ FinishStep(t.store.memory, THINKING_COMPLETE)
                   /\ event' = Ev("think", resp.kind, FALSE, "none", resp.content,
                                  FALSE, FALSE)
                   /\ UNCHANGED <<actIdx, actResults>>
    /\ nextId' = nextId + Len(resp.calls)
    /\ UNCHANGED <<current_step, config, sandbox, stepsRun, work, toolLog, entry>>

\* act() with no pending tool call.
ActNoTools(notified) ==
    /\ pc = "act"
    /\ tool_calls = <<>>
    /\ IF tool_choices = "required"
       THEN /\ RunRaise("ValueError")
            /\ UNCHANGED <<memory, hookCalls, appendLog, pending_persist_tasks, taskLog>>
       ELSE LET s == update_memory(Store, "user", NUDGE, FALSE, NoKw)
            IN  /\ SetStore(s)
                /\ IF notified
                   THEN /\ FinishStep(s.memory, GUIDANCE_ADDED)
                        /\ state' = state
                        /\ event' = Ev("act", "", FALSE, "none", GUIDANCE_ADDED,
                                       FALSE, FALSE)
                   ELSE RunRaise("NotifyError")
    /\ actIdx' = 0
    /\ UNCHANGED <<current_step, config, sandbox, tool_calls, actResults, stepsRun, work,
                   toolLog, nextId, entry>>

\* Faulty variant of command_at: the calls are taken last first.
command_at_reversed(calls, idx) == calls[Len(calls) + 1 - idx]

\* The command of the idx-th iteration of act()'s loop over the tool calls.
command_at(calls, idx) == calls[idx]

\* One iteration of act()'s loop over the pending tool calls: the call is
\* executed and awaited, its observation is truncated and recorded, and only
\* then the loop goes on; after the last command act() returns and the loop
\* iteration of run() ends.
ActTool(outcome, sink) ==
    /\ pc = "act"
    /\ actIdx \in 1..Len(tool_calls)
    /\ LET command == command_at(tool_calls, actIdx)
           r == execute_tool(command, outcome, sink)
           result == IF max_observe # 0
                     THEN Truncate(r.observation, max_observe)
                     ELSE r.observation
           special == _is_special_tool(command.name)
           s == IF ~special
                THEN update_memory(Store, "tool", result, TRUE,
                                   [NoKw EXCEPT !.name = command.name,
                                                !.tool_call_id = command.id])
                ELSE Store
           res == IF ~special THEN Append(actResults, result) ELSE actResults
       IN  /\ toolLog' = IF r.invoked
                         THEN Append(toolLog, [id |-> command.id, name |-> command.name])
                         ELSE toolLog
           /\ IF r.raised # "none"
              THEN /\ RunRaise(r.raised)
                   /\ actIdx' = 0
                   /\ actResults' = <<>>
                   /\ UNCHANGED <<memory, hookCalls, appendLog, pending_persist_tasks, taskLog>>
              ELSE /\ SetStore(s)
                   /\ state' = IF r.finished THEN "FINISHED" ELSE state
                   /\ IF actIdx = Len(tool_calls)
                      THEN /\ FinishStep(s.memory, Join(res, <<NL, NL>>))
                           /\ actIdx' = 0
                           /\ actResults' = <<>>
                      ELSE /\ actIdx' = actIdx + 1
                           /\ actResults' = res
                           /\ UNCHANGED <<pc, results, next_step_prompt>>
                   /\ event' = Ev("act_tool", command.name, r.completed, "none",
                                  result, FALSE, FALSE)
    /\ UNCHANGED <<current_step, config, sandbox, tool_calls, stepsRun, work, nextId, entry>>

\* ------------------------------------------------- the memory interface
DirectRoles == {"user", "assistant", "function"}
DirectContents == {<<"a">>, <<"b">>}

UpdateMemoryCall(role, content, persist) ==
    /\ pc = "idle"
    /\ work < MaxCalls
    /\ LET s == update_memory(Store, role, content, persist, NoKw)
       IN  /\ SetStore(s)
           /\ event' = Ev("update_memory", role, persist, s.err, content, FALSE, FALSE)
    /\ work' = work + 1
    /\ UNCHANGED <<state, current_step, config, sandbox, next_step_prompt, tool_calls, pc,
                   actIdx, actResults, results, stepsRun, toolLog, nextId, entry>>

IsStuckCall ==
    /\ pc = "idle"
    /\ event' = Ev("is_stuck", "", is_stuck(memory), "none", <<>>, FALSE, FALSE)
    /\ UNCHANGED <<state, current_step, config, sandbox, next_step_prompt, memory,
                   hookCalls, appendLog, pending_persist_tasks, taskLog,
                   tool_calls, pc, actIdx, actResults,
                   results, stepsRun, work, toolLog, nextId, entry>>

\* update_files: with items to persist and a files hook installed, the hook
\* is called; a coroutine hook is wrapped in a task, which is tracked.
update_files(log, tasks, items, persist) ==
    create_tasks(log, tasks, "files",
                 IF items # <<>> /\ persist /\ hookInstalled /\ hookAsync
                 THEN 1 ELSE 0)

FileItems == {<<>>, <<"file">>}

\* A tool of the turn in progress reports file artifacts.
UpdateFilesCall(items, persist) ==
    /\ pc = "act"
    /\ Cardinality({id \in DOMAIN taskLog : taskLog[id].kind = "files"}) < MaxFiles
    /\ LET c == update_files(taskLog, pending_persist_tasks, items, persist)
       IN  /\ taskLog' = c.taskLog
           /\ pending_persist_tasks' = c.pending_persist_tasks
    /\ event' = Ev("update_files", "", persist, "none", items, FALSE, FALSE)
    /\ UNCHANGED <<state, current_step, config, sandbox, next_step_prompt, memory,
                   hookCalls, appendLog, tool_calls, pc, actIdx, actResults,
                   results, stepsRun, work, toolLog, nextId, entry>>

\* The event loop runs a hook task to its end while the agent is suspended:
\* the task returns (ok) or raises.
TaskCompletes(id, ok) ==
    /\ id \in DOMAIN taskLog
    /\ taskLog[id].status = "pending"
    /\ taskLog' = [taskLog EXCEPT ![id].status = IF ok THEN "done" ELSE "failed"]
    /\ event' = Ev("task_done", taskLog[id].kind, ok, "none", <<>>, FALSE, FALSE)
    /\ UNCHANGED <<state, current_step, config, sandbox, next_step_prompt, memory,
                   hookCalls, appendLog, pending_persist_tasks, tool_calls, pc,
                   actIdx, actResults, results, stepsRun, work, toolLog, nextId,
                   entry>>

\* The run loop and the run() invocations that are rejected.
Next ==
    \/ \E request \in Requests : RunStart(request)
    \/ \E failing \in CleanupSinks : RunReject(<<"request">>, failing)
    \/ \E notified \in NotifyOutcomes : LoopEnter(notified)
    \/ \E resp \in LLMResponses, notified \in NotifyOutcomes : Think(resp, notified)
    \/ \E notified \in NotifyOutcomes : ActNoTools(notified)
    \/ \E outcome \in ToolOutcomes, sink \in NotifySeqs : ActTool(outcome, sink)
    \/ LoopExit
    \/ \E failing \in CleanupSinks : RunFinish(failing)

Spec == Init /\ [][Next]_vars

\* ------------------------------------------------- memory interface only
\* An agent nobody runs: callers invoke update_memory and is_stuck on it.
InitMemory ==
    /\ InitAgent
    /\ InitSandbox
    /\ work = 0
    /\ max_steps = 0
    /\ duplicate_threshold \in {1, 2}
    /\ next_step_prompt = NEXT_STEP_PROMPT
    /\ tool_choices = "auto"
    /\ max_observe = 0
    /\ max_messages \in {SmallMemory, DefaultMaxMessages}
    /\ hookInstalled \in BOOLEAN
    /\ hookAsync = FALSE
    /\ conversation_id = ""

NextMemory ==
    \/ \E role \in DirectRoles, content \in DirectContents, persist \in BOOLEAN :
          UpdateMemoryCall(role, content, persist)
    \/ IsStuckCall

SpecMemory == InitMemory /\ [][NextMemory]_vars

\* ------------------------------------------------ coroutine persistence
\* An agent whose persistence hooks are coroutine functions (as the hooks of
\* attach_django_persistence are), on an event loop that runs the hook tasks
\* whenever the agent is suspended.  It sends no notifications and is run
\* once, for one step.
InitPersist ==
    /\ InitAgent
    /\ InitSandbox
    /\ work = MaxWork - 1
    /\ max_steps = 1
    /\ duplicate_threshold = 1
    /\ next_step_prompt = NEXT_STEP_PROMPT
    /\ tool_choices = "auto"
    /\ max_observe = 0
    /\ max_messages = DefaultMaxMessages
    /\ hookInstalled = TRUE
    /\ hookAsync = TRUE
    /\ conversation_id = ""

NextPersist ==
    \/ \E request \in Requests : RunStart(request)
    \/ \E failing \in CleanupSinks : RunReject(<<"request">>, failing)
    \/ \E request \in Requests : RunOverlap(request)
    \/ \E notified \in NotifyOutcomes : LoopEnter(notified)
    \/ \E resp \in LLMResponses, notified \in NotifyOutcomes : Think(resp, notified)
    \/ \E notified \in NotifyOutcomes : ActNoTools(notified)
    \/ \E outcome \in ToolOutcomes, sink \in NotifySeqs : ActTool(outcome, sink)
    \/ \E items \in FileItems, persist \in BOOLEAN : UpdateFilesCall(items, persist)
    \/ \E id \in DOMAIN taskLog, ok \in BOOLEAN : TaskCompletes(id, ok)
    \/ LoopExit
    \/ \E failing \in CleanupSinks : RunFinish(failing)

SpecPersist == InitPersist /\ [][NextPersist]_vars


\* ------------------------------------------------------- sandbox paths
\* A path is a string: a sequence of tokens, each a separator, a drive or
\* (part of) a name.
SEP == "/"
BSL == "<backslash>"
DRIVE == "C:"
PathTokens == {SEP, BSL, DRIVE, "workspace", "home"}
LEGACY == <<SEP, "workspace">>
\* config.workspace_root, which is also the default work directory
WORKSPACE_ROOT == <<SEP, "home">>

RECURSIVE SeqsUpTo(_, _)
SeqsUpTo(S, n) ==
    IF n = 0 THEN {<<>>}
    ELSE LET shorter == SeqsUpTo(S, n - 1)
         IN  shorter \cup {Append(s, x) : s \in shorter, x \in S}

Paths == SeqsUpTo(PathTokens, MaxPath)

\* str.replace, str.startswith, str.lstrip, str.rstrip and s[n:]
Replace(s, old, new) == [i \in 1..Len(s) |-> IF s[i] = old THEN new ELSE s[i]]

StartsWith(s, prefix) ==
    Len(prefix) <= Len(s) /\ SubSeq(s, 1, Len(prefix)) = prefix

RECURSIVE LStrip(_, _)
LStrip(s, c) == IF s # <<>> /\ Head(s) = c THEN LStrip(Tail(s), c) ELSE s

RECURSIVE RStrip(_, _)
RStrip(s, c) ==
    IF s # <<>> /\ s[Len(s)] = c THEN RStrip(SubSeq(s, 1, Len(s) - 1), c) ELSE s

Drop(s, n) == SubSeq(s, n + 1, Len(s))

\* pathlib.Path on the host: '/' separates, and on Windows so does the
\* backslash.  The anchor of a path is its drive and root.
PathSeps == IF host = "windows" THEN {SEP, BSL} ELSE {SEP}

PathAnchor(p) ==
    IF host = "windows"
    THEN IF Len(p) >= 2 /\ p[1] = DRIVE /\ p[2] \in PathSeps THEN <<DRIVE, BSL>>
         ELSE IF p # <<>> /\ p[1] = DRIVE THEN <<DRIVE>>
         ELSE IF p # <<>> /\ p[1] \in PathSeps THEN <<BSL>>
         ELSE <<>>
    ELSE IF p # <<>> /\ p[1] = SEP THEN <<SEP>> ELSE <<>>

\* Path(p).is_absolute(): a root, and on Windows a drive as well
PathIsAbsolute(p) ==
    PathAnchor(p) = IF host = "windows" THEN <<DRIVE, BSL>> ELSE <<SEP>>

\* The names of the first n tokens of s: separators split, repeated
\* separators count once, adjacent name tokens are one name.
RECURSIVE NamesUpTo(_, _)
NamesUpTo(s, n) ==
    IF n = 0 THEN <<>>
    ELSE LET before == NamesUpTo(s, n - 1)
         IN  IF s[n] \in PathSeps THEN before
             ELSE IF n > 1 /\ s[n - 1] \notin PathSeps
             THEN [before EXCEPT ![Len(before)] = Append(@, s[n])]
             ELSE Append(before, <<s[n]>>)

\* Path(p).parts without the anchor
PathParts(p) ==
    LET body == Drop(p, Len(PathAnchor(p)))
    IN  NamesUpTo(body, Len(body))

\* Path(p).name
PathName(p) ==
    LET parts == PathParts(p)
    IN  IF parts = <<>> THEN <<>> ELSE parts[Len(parts)]

\* str(Path(p))
PathStr(p) ==
    PathAnchor(p) \o Join(PathParts(p), IF host = "windows" THEN <<BSL>> ELSE <<SEP>>)

\* Path(p).relative_to(root): the remaining names, or a ValueError
RelativeTo(p, root) ==
    LET parts == PathParts(p)
        base == PathParts(root)
    IN  IF /\ PathAnchor(p) = PathAnchor(root)
           /\ Len(base) <= Len(parts) /\ SubSeq(parts, 1, Len(base)) = base
        THEN [ok |-> TRUE, rel |-> Drop(parts, Len(base))]
        ELSE [ok |-> FALSE, rel |-> <<>>]

\* PurePath.as_posix() of a relative path with these names
AsPosix(names) == IF names = <<>> THEN <<".">> ELSE Join(names, <<SEP>>)

\* DaytonaSandboxClient._map_to_workspace
_map_to_workspace(p) ==
    IF p = <<>> THEN p
    ELSE
    LET wd == RStrip(work_dir, SEP)
        posix == Replace(p, BSL, SEP)
        under(rest) == wd \o <<SEP>> \o rest
    IN  IF posix = wd \/ StartsWith(posix, wd \o <<SEP>>)
        THEN posix
        ELSE IF posix = LEGACY \/ StartsWith(posix, LEGACY \o <<SEP>>)
        THEN LET remainder == LStrip(Drop(posix, Len(LEGACY)), SEP)
             IN  IF remainder = <<>> THEN wd ELSE under(remainder)
        ELSE IF StartsWith(posix, <<SEP>>)
        THEN under(LStrip(posix, SEP))
        ELSE IF PathIsAbsolute(p)
        THEN LET r == RelativeTo(p, WORKSPACE_ROOT)
             IN  IF WORKSPACE_ROOT # <<>> /\ r.ok
                 THEN under(AsPosix(r.rel))
                 ELSE under(PathName(p))
        ELSE under(posix)

\* Faulty variant of _to_sandbox_path: a path already under the work
\* directory is relocated like any other absolute path.
_to_sandbox_path_relocates(p) ==
    LET wd == RStrip(Replace(work_dir, BSL, SEP), SEP)
        posix == Replace(p, BSL, SEP)
        under(rest) == wd \o <<SEP>> \o rest
    IN  IF posix = LEGACY \/ StartsWith(posix, LEGACY \o <<SEP>>)
        THEN LET remainder == LStrip(Drop(posix, Len(LEGACY)), SEP)
             IN  IF remainder = <<>> THEN wd ELSE under(remainder)
        ELSE IF StartsWith(posix, <<SEP>>)
        THEN under(LStrip(posix, SEP))
        ELSE IF PathIsAbsolute(p)
        THEN IF WORKSPACE_ROOT # <<>>
                /\ StartsWith(PathStr(p), PathStr(WORKSPACE_ROOT))
             THEN LET r == RelativeTo(p, WORKSPACE_ROOT)
                  IN  IF r.ok THEN under(AsPosix(r.rel)) ELSE under(posix)
             ELSE under(PathName(p))
        ELSE under(posix)

\* SandboxFileOperator._to_sandbox_path
_to_sandbox_path(p) ==
    LET wd == RStrip(Replace(work_dir, BSL, SEP), SEP)
        posix == Replace(p, BSL, SEP)
        under(rest) == wd \o <<SEP>> \o rest
    IN  IF posix = wd \/ StartsWith(posix, wd \o <<SEP>>)
        THEN posix
        ELSE IF posix = LEGACY \/ StartsWith(posix, LEGACY \o <<SEP>>)
        THEN LET remainder == LStrip(Drop(posix, Len(LEGACY)), SEP)
             IN  IF remainder = <<>> THEN wd ELSE under(remainder)
        ELSE IF StartsWith(posix, <<SEP>>)
        THEN under(LStrip(posix, SEP))
        ELSE IF PathIsAbsolute(p)
        THEN IF WORKSPACE_ROOT # <<>>
                /\ StartsWith(PathStr(p), PathStr(WORKSPACE_ROOT))
             THEN LET r == RelativeTo(p, WORKSPACE_ROOT)
                  IN  IF r.ok THEN under(AsPosix(r.rel)) ELSE under(posix)
             ELSE under(PathName(p))
        ELSE under(posix)

\* The path mapping of an interface
MapOf(interface, p) ==
    IF interface = "operator" THEN _to_sandbox_path(p) ELSE _map_to_workspace(p)

\* ------------------------------------------------------- sandbox commands
\* 'command is None'
NONE == <<"<None>">>
NOT_INITIALIZED == <<"Sandbox not initialized">>

\* One call of sandbox.process.exec: the command line and the cwd argument
\* (empty when the call passes none).
Exec(cmd, cwd) == [cmd |-> cmd, cwd |-> cwd]

\* What the SDK does with the process.exec calls of one run_command, in the
\* order they are made: a call returns ("ok"), rejects its arguments
\* ("TypeError") or fails otherwise ("error").  The call with cwd is
\* repeated after a TypeError, a second TypeError leads to the call without
\* cwd, and any other failure to the shell-composed fallback, the last call.
SdkOutcomes ==
    { <<"ok">>, <<"error", "ok">>, <<"error", "error">>,
      <<"TypeError", "ok">>, <<"TypeError", "error", "ok">>,
      <<"TypeError", "error", "error">>,
      <<"TypeError", "TypeError", "ok">>,
      <<"TypeError", "TypeError", "error", "ok">>,
      <<"TypeError", "TypeError", "error", "error">> }

\* shlex.quote of a path without special characters
Quote(s) == s

\* The output of a command line the sandbox executed
Output(cmd) == <<"output of: ">> \o cmd

\* Faulty variant of run_command: a failure of the primary execution is
\* raised at once, without the shell-composed fallback.
run_command_no_fallback(handle, command, sdk) ==
    LET cwd == work_dir
        res(exc, msg, out, execs) ==
            [raised |-> exc, msg |-> msg, out |-> out, execs |-> execs]
        first == Exec(command, cwd)
        plain == Exec(command, <<>>)
        failed == <<"Failed to execute command in sandbox (cwd=">> \o cwd
                      \o <<"): ">> \o command \o <<". Error: ", "e2">>
    IN  IF handle = 0 THEN res("RuntimeError", NOT_INITIALIZED, <<>>, <<>>)
        ELSE IF command = NONE THEN res("none", <<>>, <<>>, <<>>)
        ELSE IF sdk[1] = "ok" THEN res("none", <<>>, Output(command), <<first>>)
        ELSE res("RuntimeError", failed, <<>>, <<first>>)

\* DaytonaSandboxClient.run_command with the session handle (0 = None): the
\* exception it raises with its message, the result it returns, and the
\* process.exec calls it made, in order.
run_command(handle, command, sdk) ==
    LET cwd == work_dir
        res(exc, msg, out, execs) ==
            [raised |-> exc, msg |-> msg, out |-> out, execs |-> execs]
        first == Exec(command, cwd)
        plain == Exec(command, <<>>)
        fallback_cmd == <<"cd ">> \o Quote(cwd) \o <<" && ">> \o command
        failed == <<"Failed to execute command in sandbox (cwd=">> \o cwd
                      \o <<"): ">> \o command \o <<". Error: ", "e2">>
        secondary(execs) ==
            IF sdk[Len(execs) + 1] = "ok"
            THEN res("none", <<>>, Output(command), Append(execs, Exec(fallback_cmd, <<>>)))
            ELSE res("RuntimeError", failed, <<>>, Append(execs, Exec(fallback_cmd, <<>>)))
    IN  IF handle = 0 THEN res("RuntimeError", NOT_INITIALIZED, <<>>, <<>>)
        ELSE IF command = NONE THEN res("none", <<>>, <<>>, <<>>)
        ELSE IF sdk[1] = "ok" THEN res("none", <<>>, Output(command), <<first>>)
        ELSE IF sdk[1] = "error" THEN secondary(<<first>>)
        ELSE IF sdk[2] = "ok" THEN res("none", <<>>, Output(command), <<first, first>>)
        ELSE IF sdk[2] = "error" THEN secondary(<<first, first>>)
        ELSE IF sdk[3] = "ok" THEN res("none", <<>>, Output(command), <<first, first, plain>>)
        ELSE secondary(<<first, first, plain>>)

\* ------------------------------------------------------- sandbox session
\* The client: its session handle (0 = None, else the number of the remote
\* environment), whether it holds a Daytona API object, the remote
\* environments provisioned so far, the file system of the session, and
\* the conversation it is bound to.
Client == [session |-> session, daytona |-> daytona, envs |-> envs, files |-> files,
           binding |-> binding]

Returned(c) == [client |-> c, raised |-> "none", msg |-> <<>>]
Raised(c, exc, msg) == [client |-> c, raised |-> exc, msg |-> msg]

\* content.encode("utf-8") and bytes.decode("utf-8", errors="ignore")
Encode(content) == [i \in 1..Len(content) |-> <<"utf-8", content[i]>>]

Decode(data) ==
    LET valid == SelectSeq(data, LAMBDA b : b[1] = "utf-8")
    IN  [i \in 1..Len(valid) |-> valid[i][2]]

\* What the provider does with create(): the SDK is missing, the remote
\* environment is provisioned, or provisioning fails.
CreateOutcomes == {"no_sdk", "created", "failed"}

\* The files recorded for a conversation, at their mapped paths: the volume
\* of the conversation holds them, and the replay of its file artifacts
\* writes them.
ConversationFiles(conv_id) ==
    [q \in {_map_to_workspace(<<"artifact">>)} |-> Encode(<<"content of ", conv_id>>)]

\* DaytonaSandboxClient.create(conversation_id): the conversation is the one
\* given or else the one the client remembers.  Without one, a fresh
\* environment with an empty workspace becomes the session; with one, an
\* environment with the volume of the conversation, or one into which its
\* recorded files are replayed.  A failure to prepare the work directory is
\* logged and changes nothing.
sandbox_create_for(c, conversation, outcome) ==
    LET conv_id == IF conversation # "" THEN conversation
                   ELSE c.binding.conversation
    IN  IF outcome = "no_sdk"
        THEN Raised(c, "RuntimeError", <<"Daytona SDK is required">>)
        ELSE IF outcome = "failed"
        THEN Raised([c EXCEPT !.daytona = TRUE, !.binding.conversation = conv_id],
                    "RuntimeError", <<"Failed to create Daytona sandbox: ", "e">>)
        ELSE Returned([c EXCEPT !.daytona = TRUE,
                                !.envs = Append(@, "live"),
                                !.session = Len(c.envs) + 1,
                                !.files = IF conv_id # "" THEN ConversationFiles(conv_id)
                                          ELSE <<>>,
                                !.binding = [conversation |-> conv_id,
                                             sandbox_conv |-> conv_id,
                                             attached |-> conv_id,
                                             mounted |-> conv_id # ""
                                                         /\ outcome = "created"]])

\* create() as the tools call it, without a conversation.
sandbox_create(c, outcome) == sandbox_create_for(c, "", outcome)

\* Faulty variant of sandbox_cleanup: a failed delete keeps the handle.
sandbox_cleanup_keeps_handle(c, deleted) ==
    IF c.session # 0 /\ c.daytona /\ ~deleted
    THEN c
    ELSE [c EXCEPT !.envs = IF c.session # 0 /\ c.daytona
                            THEN [@ EXCEPT ![c.session] = "deleted"] ELSE @,
                   !.session = 0, !.daytona = FALSE, !.files = <<>>,
                   !.binding.sandbox_conv = "", !.binding.attached = "",
                   !.binding.mounted = FALSE]

\* DaytonaSandboxClient.cleanup: the remote delete succeeds (deleted) or
\* fails and is ignored; the handle is dropped either way, and so is the
\* record of the conversation the session was created for.
sandbox_cleanup(c, deleted) ==
    [c EXCEPT !.envs = IF c.session # 0 /\ c.daytona /\ deleted
                       THEN [@ EXCEPT ![c.session] = "deleted"] ELSE @,
              !.session = 0, !.daytona = FALSE, !.files = <<>>,
              !.binding.sandbox_conv = "", !.binding.attached = "",
                   !.binding.mounted = FALSE]

\* SandboxFileOperator._ensure_sandbox_initialized, and the same check in
\* the tools: create() only when the client holds no session.
_ensure_sandbox_initialized(c, outcome) ==
    IF c.session = 0 THEN sandbox_create(c, outcome) ELSE Returned(c)

\* What 'cat <path> || true' prints for a missing file when the SDK reports
\* the error stream with the result.
CAT_FAILED == <<"cat: ", "No such file or directory">>

\* What the sandbox does during one read: the file-system call of the SDK
\* works or fails (fs), the process calls behave as sdk says, the result of
\* a command includes its error stream or not (stderr), and the provider
\* answers a create() the file operator may need first (create).
ReadOutcomes ==
    [fs : {"ok", "error"}, sdk : SdkOutcomes, stderr : BOOLEAN, create : CreateOutcomes]

\* What the sandbox does during one write: the upload works or fails, the
\* process calls behave as sdk says (the calls of one write alike), and the
\* shell command of the fallback, when it is executed, ends with status 0
\* (exit) or fails, for instance because the directory does not exist.
WriteOutcomes ==
    [upload : {"ok", "error"}, sdk : SdkOutcomes, exit : BOOLEAN, create : CreateOutcomes]

\* A sandbox in which every call works
HealthySdk == <<"ok">>
HealthyRead == [fs |-> "ok", sdk |-> HealthySdk, stderr |-> TRUE, create |-> "created"]
HealthyWrite == [upload |-> "ok", sdk |-> HealthySdk, exit |-> TRUE, create |-> "created"]
\* A sandbox that rejects the upload and in which the shell fallback fails
RejectedWrite == [upload |-> "error", sdk |-> HealthySdk, exit |-> FALSE, create |-> "created"]

\* DaytonaSandboxClient.read_file: the text of the file at the mapped path
\* spath, or the result of the shell fallback 'cat <spath> || true'.
client_read_file(c, p, r) ==
    LET spath == _map_to_workspace(p)
        cat == run_command(c.session, <<"cat ">> \o Quote(spath) \o <<" || true">>, r.sdk)
        res(exc, msg, out) ==
            [client |-> c, raised |-> exc, msg |-> msg, out |-> out, spath |-> spath]
    IN  IF c.session = 0 THEN res("RuntimeError", NOT_INITIALIZED, <<>>)
        ELSE IF spath \in DOMAIN c.files /\ r.fs = "ok"
        THEN res("none", <<>>, Decode(c.files[spath]))
        ELSE IF cat.raised # "none" THEN res(cat.raised, cat.msg, <<>>)
        ELSE IF spath \in DOMAIN c.files THEN res("none", <<>>, Decode(c.files[spath]))
        ELSE res("none", <<>>, IF r.stderr THEN CAT_FAILED ELSE <<>>)

\* read_file through an interface.  The file operator creates the session
\* when there is none, maps the path, calls the client and wraps the
\* client's failure in a ToolError.
read_file(c, interface, p, r) ==
    IF interface = "client" THEN client_read_file(c, p, r)
    ELSE LET ready == _ensure_sandbox_initialized(c, r.create)
             got == client_read_file(ready.client, _to_sandbox_path(p), r)
         IN  IF ready.raised # "none"
             THEN [client |-> ready.client, raised |-> ready.raised,
                   msg |-> ready.msg, out |-> <<>>, spath |-> _to_sandbox_path(p)]
             ELSE IF got.raised # "none"
             THEN [got EXCEPT !.raised = "ToolError",
                              !.msg = <<"Failed to read ">> \o p \o <<" in sandbox: ">> \o got.msg]
             ELSE got

\* DaytonaSandboxClient.write_file: upload, on failure the shell fallback,
\* then the post-write check 'test -e <spath>', whose result is logged.
\* check is what the check observed: "EXISTS", "MISSING", or "unverified"
\* when the check itself failed.
client_write_file(c, p, content, w) ==
    LET spath == _map_to_workspace(p)
        store == [c EXCEPT !.files = [q \in DOMAIN c.files \cup {spath} |->
                                         IF q = spath THEN Encode(content) ELSE c.files[q]]]
        shell == run_command(c.session,
                             <<"echo ", "b64", " | base64 -d > ">> \o Quote(spath)
                                 \o <<" && chmod 644 ">> \o Quote(spath), w.sdk)
        test == run_command(c.session,
                            <<"test -e ">> \o Quote(spath) \o <<" && echo EXISTS || echo MISSING">>,
                            w.sdk)
        res(after, exc, msg, check, stored) ==
            [client |-> after, raised |-> exc, msg |-> msg, check |-> check,
             stored |-> stored]
        verified(after, stored) ==
            res(after, "none", <<>>,
                IF test.raised # "none" THEN "unverified"
                ELSE IF spath \in DOMAIN after.files THEN "EXISTS" ELSE "MISSING",
                stored)
    IN  IF c.session = 0 THEN res(c, "RuntimeError", NOT_INITIALIZED, "none", FALSE)
        ELSE IF w.upload = "ok" THEN verified(store, TRUE)
        ELSE IF shell.raised # "none" THEN res(c, shell.raised, shell.msg, "none", FALSE)
        ELSE IF w.exit THEN verified(store, TRUE)
        ELSE verified(c, FALSE)

\* write_file through an interface, the file operator as for read_file.
write_file(c, interface, p, content, w) ==
    IF interface = "client" THEN client_write_file(c, p, content, w)
    ELSE LET ready == _ensure_sandbox_initialized(c, w.create)
             put == client_write_file(ready.client, _to_sandbox_path(p), content, w)
         IN  IF ready.raised # "none"
             THEN [client |-> ready.client, raised |-> ready.raised,
                   msg |-> ready.msg, check |-> "none", stored |-> FALSE]
             ELSE IF put.raised # "none"
             THEN [put EXCEPT !.raised = "ToolError",
                              !.msg = <<"Failed to write to ">> \o p \o <<" in sandbox: ">> \o put.msg]
             ELSE put

Interfaces == {"client", "operator"}
WorkDirs == {<<SEP, "home">>, <<SEP, "home", SEP>>, <<SEP, "workspace">>}
Hosts == {"posix", "windows"}
Contents == <<<<"c1">>, <<"c2", "c2">>>>

\* Other spellings of a path: itself, its mapped form, and the path put
\* under the root, the work directory or the legacy root.
Spellings(interface, p) ==
    {p, MapOf(interface, p), <<SEP>> \o p, <<BSL>> \o p,
     RStrip(work_dir, SEP) \o p, RStrip(work_dir, SEP) \o <<SEP>> \o p,
     LEGACY \o p, LEGACY \o <<SEP>> \o p}

agent == <<state, current_step, config, next_step_prompt, memory, hookCalls,
           appendLog, pending_persist_tasks, taskLog, tool_calls, pc, actIdx,
           actResults, results, stepsRun, work, toolLog, nextId, entry, event>>

caller == <<work_dir, host, path, via>>

\* A caller asks an interface for the mapped form of the path.
MapPath ==
    /\ fsop' = [op |-> "map", path |-> path, out |-> MapOf(via, path)]
    /\ UNCHANGED <<agent, caller, files, written, session, daytona, envs, binding>>

\* The client after an operation
SetClient(c) ==
    /\ session' = c.session
    /\ daytona' = c.daytona
    /\ envs' = c.envs
    /\ files' = c.files
    /\ binding' = c.binding

\* write_file(path, content) through the caller's interface, in a sandbox
\* that behaves as w says.
WriteFileIn(w) ==
    /\ Len(written) < MaxWrites
    /\ Len(written) < Len(Contents)
    /\ \E content \in {Contents[Len(written) + 1]} :
       \E put \in {write_file(Client, via, path, content, w)} :
           /\ Len(put.client.envs) <= MaxEnvs
           /\ SetClient(put.client)
           /\ written' = IF put.stored
                         THEN Append(written, [path |-> path, content |-> content])
                         ELSE written
           /\ fsop' = [op |-> "write", path |-> path, out |-> content,
                       raised |-> put.raised, msg |-> put.msg,
                       stored |-> put.stored, check |-> put.check, held |-> session]
    /\ UNCHANGED <<agent, caller>>

\* The sandbox stores the content (stored), or it rejects the upload and the
\* shell fallback fails as well.
WriteFile(stored) == WriteFileIn(IF stored THEN HealthyWrite ELSE RejectedWrite)

\* read_file(q) through the caller's interface, in a sandbox that behaves
\* as r says.
ReadFileIn(q, r) ==
    /\ \E got \in {read_file(Client, via, q, r)} :
           /\ Len(got.client.envs) <= MaxEnvs
           /\ SetClient(got.client)
           /\ fsop' = [op |-> "read", path |-> q, out |-> got.out,
                       raised |-> got.raised, msg |-> got.msg, held |-> session,
                       missing |-> got.spath \notin DOMAIN got.client.files]
    /\ UNCHANGED <<agent, caller, written>>

\* read_file(q) for a spelling q of the path, in a sandbox in which every
\* call works.
ReadFile(q) == ReadFileIn(q, HealthyRead)

\* A sandbox created with the configured work directory, and a caller that
\* uses one of the two interfaces on one path.
InitPaths ==
    /\ InitAgent
    /\ work = 0
    /\ max_steps = 0
    /\ duplicate_threshold = 1
    /\ next_step_prompt = NEXT_STEP_PROMPT
    /\ tool_choices = "auto"
    /\ max_observe = 0
    /\ max_messages = DefaultMaxMessages
    /\ hookInstalled = FALSE
    /\ hookAsync = FALSE
    /\ conversation_id = ""
    /\ work_dir \in WorkDirs
    /\ host \in Hosts
    /\ path \in Paths
    /\ via \in Interfaces
    /\ files = <<>>
    /\ written = <<>>
    /\ fsop = [op |-> "none"]
    /\ session = 1
    /\ daytona = TRUE
    /\ envs = <<"live">>
    /\ binding = NoBinding

NextPaths ==
    \/ MapPath
    \/ \E stored \in BOOLEAN : WriteFile(stored)
    \/ \E q \in Spellings(via, path) : ReadFile(q)

SpecPaths == InitPaths /\ [][NextPaths]_vars

\* ------------------------------------------------- sandbox client in use
Commands == {NONE, <<"ls">>}

\* create(conversation_id=conversation) is called on the client.
CreateFor(conversation, outcome) ==
    /\ Len(envs) < MaxEnvs
    /\ \E made \in {sandbox_create_for(Client, conversation, outcome)} :
           /\ SetClient(made.client)
           /\ fsop' = [op |-> "create", raised |-> made.raised, msg |-> made.msg,
                       held |-> session, given |-> conversation]
    /\ UNCHANGED <<agent, caller, written>>

\* create() is called on the client.
Create(outcome) == CreateFor("", outcome)

\* cleanup() is called on the client; nothing it does can raise past its
\* 'except Exception: pass'.
Cleanup(deleted) ==
    /\ SetClient(sandbox_cleanup(Client, deleted))
    /\ fsop' = [op |-> "cleanup", raised |-> "none", msg |-> <<>>, held |-> session]
    /\ UNCHANGED <<agent, caller, written>>

\* run_command(command) is called on the client.
RunCommand(command, sdk) ==
    /\ \E ran \in {run_command(session, command, sdk)} :
           fsop' = [op |-> "run_command", command |-> command, sdk |-> sdk,
                    raised |-> ran.raised, msg |-> ran.msg, out |-> ran.out,
                    execs |-> ran.execs, held |-> session]
    /\ UNCHANGED <<agent, caller, files, written, session, daytona, envs, binding>>

\* Bash.execute: a restart releases the session and creates a new one;
\* otherwise the session is created when there is none and the command is
\* run, a failure of run_command becoming an error result.
BashExecute(restart, command, deleted, outcome, sdk) ==
    /\ Len(envs) < MaxEnvs
    /\ LET released == sandbox_cleanup(Client, deleted)
           made == sandbox_create(released, outcome)
           ready == _ensure_sandbox_initialized(Client, outcome)
           ran == run_command(ready.client.session, command, sdk)
           result(c, exc, msg, out, execs) ==
               /\ SetClient(c)
               /\ fsop' = [op |-> "bash", restart |-> restart, command |-> command,
                           raised |-> exc,
                           msg |-> msg, out |-> out, execs |-> execs, held |-> session]
       IN  IF restart
           THEN result(made.client, made.raised, made.msg,
                       IF made.raised = "none"
                       THEN <<"sandbox bash session restarted">> ELSE <<>>, <<>>)
           ELSE IF ready.raised # "none"
           THEN result(ready.client, ready.raised, ready.msg, <<>>, <<>>)
           ELSE IF command = NONE
           THEN result(ready.client, "ToolError", <<"no command provided.">>, <<>>, <<>>)
           ELSE IF ran.raised # "none"
           THEN result(ready.client, "none", <<>>,
                       <<"sandbox bash error: ">> \o ran.msg, ran.execs)
           ELSE result(ready.client, "none", <<>>, ran.out, ran.execs)
    /\ UNCHANGED <<agent, caller, written>>

\* A client that has created nothing yet, and a caller that uses one of the
\* two interfaces on one path.
InitClient ==
    /\ InitAgent
    /\ work = 0
    /\ max_steps = 0
    /\ duplicate_threshold = 1
    /\ next_step_prompt = NEXT_STEP_PROMPT
    /\ tool_choices = "auto"
    /\ max_observe = 0
    /\ max_messages = DefaultMaxMessages
    /\ hookInstalled = FALSE
    /\ hookAsync = FALSE
    /\ conversation_id = ""
    /\ work_dir = WORKSPACE_ROOT
    /\ host = "posix"
    /\ path = <<"workspace">>
    /\ via \in Interfaces
    /\ files = <<>>
    /\ written = <<>>
    /\ fsop = [op |-> "none"]
    /\ session = 0
    /\ daytona = FALSE
    /\ envs = <<>>
    /\ binding = NoBinding

NextClient ==
    \/ \E outcome \in CreateOutcomes : Create(outcome)
    \/ \E deleted \in BOOLEAN : Cleanup(deleted)
    \/ \E command \in Commands, sdk \in SdkOutcomes : RunCommand(command, sdk)
    \/ \E deleted \in BOOLEAN, outcome \in CreateOutcomes :
          BashExecute(TRUE, NONE, deleted, outcome, HealthySdk)
    \/ \E command \in Commands, outcome \in CreateOutcomes, sdk \in SdkOutcomes :
          BashExecute(FALSE, command, FALSE, outcome, sdk)
    \/ \E w \in WriteOutcomes : WriteFileIn(w)
    \/ \E r \in ReadOutcomes : ReadFileIn(path, r)

SpecClient == InitClient /\ [][NextClient]_vars

\* --------------------------------------------- sandbox client and conversations
\* The client is created for conversations and without one, released, and
\* used by Bash and through the file interfaces, in a sandbox in which every
\* call works.  With a conversation, "created" is an environment with the
\* volume of the conversation mounted, and "unmounted" one created without
\* the volume after the mount failed.
NextBinding ==
    \/ \E conversation \in {"conv", "other"}, outcome \in CreateOutcomes \cup {"unmounted"} :
          CreateFor(conversation, outcome)
    \/ \E outcome \in CreateOutcomes : Create(outcome)
    \/ \E deleted \in BOOLEAN : Cleanup(deleted)
    \/ \E deleted \in BOOLEAN, outcome \in CreateOutcomes :
          BashExecute(TRUE, NONE, deleted, outcome, HealthySdk)
    \/ \E command \in Commands, outcome \in CreateOutcomes :
          BashExecute(FALSE, command, FALSE, outcome, HealthySdk)
    \/ \E q \in {path, <<"artifact">>} : ReadFileIn(q, HealthyRead)

SpecBinding == InitClient /\ [][NextBinding]_vars

\* ------------------------------------------------ tool-message compaction
\* A token that stands for a thousand characters, and the number of
\* characters of a string.
BIG == "<1000 characters>"

RECURSIVE CharLen(_)
CharLen(s) ==
    IF s = <<>> THEN 0
    ELSE (IF Head(s) = BIG THEN 1000 ELSE 1) + CharLen(Tail(s))

\* content.split('\n')
RECURSIVE Split(_)
Split(s) ==
    IF \A i \in DOMAIN s : s[i] # NL THEN <<s>>
    ELSE LET i == CHOOSE k \in DOMAIN s :
                      s[k] = NL /\ \A j \in 1..(k - 1) : s[j] # NL
         IN  <<SubSeq(s, 1, i - 1)>> \o Split(SubSeq(s, i + 1, Len(s)))

SEARCH_HEADER == "Search results:"
RESULT_MARK == "- "

\* The message is one _cleanup_tool_messages collects for cleaning.
NeedsCleaning(msg) ==
    /\ msg.role = "tool"
    /\ msg.name # ""
    /\ Lower(msg.name) \in {"read", "web_search"}
    /\ CharLen(msg.content) > 1000

\* The content of a 'read' message after cleaning: with more than ten lines,
\* the first five and a notice.
CleanRead(content) ==
    LET lines == Split(content)
    IN  IF Len(lines) > 10
        THEN Join(SubSeq(lines, 1, 5), <<NL>>) \o <<NL, "...", NL, "[Content truncated for brevity]">>
        ELSE content

\* The loop of the 'web_search' branch over the lines: the lines kept and the
\* number of result lines seen.
RECURSIVE KeepResults(_, _, _)
KeepResults(lines, kept, result_count) ==
    IF lines = <<>> THEN [kept |-> kept, result_count |-> result_count]
    ELSE LET line == Head(lines)
         IN  IF line # <<>> /\ line[1] = RESULT_MARK
             THEN KeepResults(Tail(lines),
                              IF result_count + 1 <= 2 THEN Append(kept, line) ELSE kept,
                              result_count + 1)
             ELSE IF ~(line # <<>> /\ line[1] = SEARCH_HEADER)
             THEN KeepResults(Tail(lines), Append(kept, line), result_count)
             ELSE KeepResults(Tail(lines), kept, result_count)

\* The content of a 'web_search' message after cleaning.
CleanWebSearch(content) ==
    IF \E i \in DOMAIN content : content[i] = SEARCH_HEADER
    THEN LET k == KeepResults(Split(content), <<>>, 0)
             more == <<"... and ", ToString(k.result_count - 2), " more results">>
         IN  Join(IF k.result_count > 2 THEN Append(k.kept, more) ELSE k.kept, <<NL>>)
    ELSE content

Cleaned(msg) ==
    IF Lower(msg.name) = "read"
    THEN [msg EXCEPT !.content = CleanRead(msg.content)]
    ELSE [msg EXCEPT !.content = CleanWebSearch(msg.content)]

\* _cleanup_tool_messages: without messages or conversation nothing is done;
\* found is FALSE when the conversation cannot be fetched, which ends the
\* cleanup.  Every collected message is cleaned in place and handed to the
\* persistence hook again, in the order of Memory.
RECURSIVE _cleanup_tool_messages(_, _, _)
_cleanup_tool_messages(messages, hooked, found) ==
    IF messages = <<>> \/ conversation_id = "" \/ ~found
    THEN [messages |-> messages, hookCalls |-> hooked]
    ELSE LET msg == messages[Len(messages)]
             rest == _cleanup_tool_messages(SubSeq(messages, 1, Len(messages) - 1),
                                            hooked, found)
         IN  IF NeedsCleaning(msg)
             THEN [messages |-> Append(rest.messages, Cleaned(msg)),
                   hookCalls |-> IF hookInstalled
                                 THEN Append(rest.hookCalls,
                                             HookCall("tool", Cleaned(msg).content,
                                                      [NoKw EXCEPT !.name = msg.name,
                                                                   !.tool_call_id = msg.tool_call_id]))
                                 ELSE rest.hookCalls]
             ELSE [messages |-> Append(rest.messages, msg), hookCalls |-> rest.hookCalls]

\* The contents of tool results: short, above the threshold on one line,
\* above it on eleven lines, and search results with and without header.
ManyLines == Join([i \in 1..11 |-> IF i = 7 THEN <<BIG>> ELSE <<"line">>], <<NL>>)
ToolContents ==
    { <<"x">>, <<BIG, "x">>, ManyLines,
      <<SEARCH_HEADER, NL, RESULT_MARK, "r1", NL, RESULT_MARK, "r2", NL,
        RESULT_MARK, BIG, NL, "tail">> }

\* act() records the result of a non-special tool call.
RecordToolMessage(name, content) ==
    /\ pc = "idle"
    /\ work < MaxCalls
    /\ LET s == update_memory(Store, "tool", content, TRUE,
                              [NoKw EXCEPT !.name = name, !.tool_call_id = nextId + 1])
       IN  /\ SetStore(s)
           /\ event' = Ev("update_memory", "tool", TRUE, s.err, content, FALSE, FALSE)
    /\ nextId' = nextId + 1
    /\ work' = work + 1
    /\ UNCHANGED <<state, current_step, config, sandbox, next_step_prompt, tool_calls, pc,
                   actIdx, actResults, results, stepsRun, toolLog, entry>>

\* run() compacts the tool messages before it returns.
CleanupToolMessages(found) ==
    /\ pc = "idle"
    /\ work < MaxCalls
    /\ \E c \in {_cleanup_tool_messages(memory, hookCalls, found)} :
          /\ memory' = c.messages
          /\ hookCalls' = c.hookCalls
          /\ event' = Ev("compact", "", found, "none", <<>>, FALSE, FALSE)
    /\ work' = work + 1
    /\ UNCHANGED <<state, current_step, config, sandbox, next_step_prompt, appendLog,
                   pending_persist_tasks, taskLog, tool_calls, pc, actIdx,
                   actResults, results, stepsRun, toolLog, nextId, entry>>

\* An agent attached to a conversation by attach_django_persistence, whose
\* Memory callers fill and run() compacts.
InitCompact ==
    /\ InitAgent
    /\ InitSandbox
    /\ work = 0
    /\ max_steps = 0
    /\ duplicate_threshold = 1
    /\ next_step_prompt = NEXT_STEP_PROMPT
    /\ tool_choices = "auto"
    /\ max_observe = 0
    /\ max_messages = DefaultMaxMessages
    /\ hookInstalled = TRUE
    /\ hookAsync = TRUE
    /\ conversation_id \in {"conv", ""}

NextCompact ==
    \/ \E content \in DirectContents : UpdateMemoryCall("assistant", content, TRUE)
    \/ \E name \in {"read", "web_search", "bash"}, content \in ToolContents : RecordToolMessage(name, content)
    \/ \E found \in BOOLEAN : CleanupToolMessages(found)

SpecCompact == InitCompact /\ [][NextCompact]_vars

\* ------------------------------------------------------- a longer run
\* An agent without a conversation under AUTO policy, with StuckSteps steps
\* to spend: one run of StuckSteps steps, enough for the stuck check to fire
\* more than once, or a shorter run followed by the runs the steps it left
\* allow.
StuckSteps == 3

InitStuck ==
    /\ InitAgent
    /\ InitSandbox
    /\ work = MaxWork - StuckSteps
    /\ max_steps \in {StuckSteps - 1, StuckSteps}
    /\ duplicate_threshold \in {1, 2}
    /\ next_step_prompt = NEXT_STEP_PROMPT
    /\ tool_choices = "auto"
    /\ max_observe = 0
    /\ max_messages = DefaultMaxMessages
    /\ hookInstalled = TRUE
    /\ hookAsync = FALSE
    /\ conversation_id = ""

NextStuck ==
    \/ \E request \in Requests : RunStart(request)
    \/ \E notified \in NotifyOutcomes : LoopEnter(notified)
    \/ \E resp \in LLMResponses, notified \in NotifyOutcomes : Think(resp, notified)
    \/ \E notified \in NotifyOutcomes : ActNoTools(notified)
    \/ \E outcome \in ToolOutcomes, sink \in NotifySeqs : ActTool(outcome, sink)
    \/ LoopExit
    \/ \E failing \in CleanupSinks : RunFinish(failing)

SpecStuck == InitStuck /\ [][NextStuck]_vars

\* ------------------------------------------- paths with '.' and '..' segments
\* A caller that asks one of the two interfaces for the mapped form of a
\* path with '.' and '..' segments, in the spellings callers use: relative,
\* absolute, under the work directory, under the legacy root, with
\* backslashes and with a drive.
InitDots ==
    /\ InitAgent
    /\ work = 0
    /\ max_steps = 0
    /\ duplicate_threshold = 1
    /\ next_step_prompt = NEXT_STEP_PROMPT
    /\ tool_choices = "auto"
    /\ max_observe = 0
    /\ max_messages = DefaultMaxMessages
    /\ hookInstalled = FALSE
    /\ hookAsync = FALSE
    /\ conversation_id = ""
    /\ work_dir \in WorkDirs
    /\ host \in Hosts
    /\ path \in
          { <<"x">>,
            <<".", SEP, "x">>,
            <<"x", SEP, "..", SEP, "y">>,
            <<"..">>,
            <<"..", SEP, "x">>,
            <<"..", BSL, "x">>,
            <<"x", SEP, "..", SEP, "..", SEP, "y">>,
            <<SEP, "..", SEP, "x">>,
            <<SEP, "a", SEP, "..", SEP, "..", SEP, "x">>,
            RStrip(work_dir, SEP) \o <<SEP, "x", SEP, "..", SEP, "y">>,
            RStrip(work_dir, SEP) \o <<SEP, "..", SEP, "x">>,
            LEGACY \o <<SEP, "..", SEP, "x">>,
            <<DRIVE, BSL, "..", BSL, "x">>,
            <<DRIVE, BSL, "x", BSL, "..">> }
    /\ via \in Interfaces
    /\ files = <<>>
    /\ written = <<>>
    /\ fsop = [op |-> "none"]
    /\ session = 1
    /\ daytona = TRUE
    /\ envs = <<"live">>
    /\ binding = NoBinding

NextDots == MapPath

SpecDots == InitDots /\ [][NextDots]_vars

\* ================================================================ claims
Last(seq) == seq[Len(seq)]

\* Role and content of the persisted messages of a message sequence, in order.
Persisted(messages) ==
    LET p == SelectSeq(messages, LAMBDA m : m.persist)
    IN  [i \in 1..Len(p) |-> [role |-> p[i].role, content |-> p[i].content]]

\* Role and content of the hook invocations, in order.
HookSeq ==
    [i \in 1..Len(hookCalls) |-> [role |-> hookCalls[i].role,
                                  content |-> hookCalls[i].content]]

\* C1: run() called on an agent whose state is not IDLE fails with the
\* invalid-state error and does nothing else: no step runs, Memory,
\* current_step and state are unchanged, the message hook is not invoked, and
\* neither tool cleanup nor sandbox release is performed for the rejected call.
C1_RejectedRunDoesNothing ==
    [][event'.op = "run_reject" =>
          /\ event'.raised = "RuntimeError"
          /\ UNCHANGED <<state, current_step, memory, hookCalls, stepsRun, pc>>
          /\ ~event'.cleanup
          /\ ~event'.release]_vars

\* C2: in every step, each message appended with persist = false is in Memory
\* afterwards and no hook invocation of that step carries it; this covers
\* direct calls, the next-step prompt of think() and the nudge of act().
C2_EphemeralNeverPersisted ==
    [][\A i \in (Len(appendLog) + 1)..Len(appendLog') :
          ~appendLog'[i].persist =>
              /\ \E j \in DOMAIN memory' : memory'[j] = appendLog'[i]
              /\ \A j \in (Len(hookCalls) + 1)..Len(hookCalls') :
                    ~(/\ hookCalls'[j].role = appendLog'[i].role
                      /\ hookCalls'[j].content = appendLog'[i].content)]_vars

\* The nudge of act() and the next-step prompt of think() are in Memory as
\* ephemeral messages while the hook has been invoked for other messages only.
C2_Witness ==
    /\ event.op = "act"
    /\ Last(memory).content = NUDGE /\ ~Last(memory).persist
    /\ \E i \in DOMAIN memory :
          memory[i].content = NEXT_STEP_PROMPT /\ ~memory[i].persist
    /\ hookCalls # <<>>
    /\ \A j \in DOMAIN hookCalls :
          hookCalls[j].content \notin {NUDGE, NEXT_STEP_PROMPT}

\* C3: update_memory with a role outside {system, user, assistant, tool}
\* raises the invalid-role error, leaves Memory unchanged and does not invoke
\* the message hook.
C3_InvalidRoleRejected ==
    [][(event'.op = "update_memory" /\ event'.name \notin Roles) =>
          /\ event'.raised = "ValueError"
          /\ UNCHANGED <<memory, hookCalls, appendLog>>]_vars

\* An invalid-role call was made on an agent whose Memory and hook log are
\* not empty, and it raised.
C3_Witness ==
    /\ event.op = "update_memory"
    /\ event.name = "function"
    /\ event.raised = "ValueError"
    /\ memory # <<>>
    /\ hookCalls # <<>>

\* C4 as stated: with a hook installed, the sequence of hook invocations
\* equals the subsequence of Memory made of the persisted messages.
C4_HookSeqIsPersistedMemory ==
    hookInstalled => HookSeq = Persisted(memory)

\* C4 as amended: with a hook installed, the hook is invoked exactly once per
\* call made with persist = true, in the order of the appends and with the
\* same role and content, so the hook invocations equal the persisted
\* subsequence of the messages ever appended; they equal the persisted
\* subsequence of Memory as long as Memory has evicted nothing.
C4_HookSeqIsPersistedAppends ==
    hookInstalled =>
        /\ HookSeq = Persisted(appendLog)
        /\ (Len(appendLog) <= max_messages => HookSeq = Persisted(memory))

\* Memory has evicted a message; persisted and ephemeral messages were appended.
C4_Witness ==
    /\ hookInstalled
    /\ Len(appendLog) > max_messages
    /\ Len(hookCalls) >= 2
    /\ \E i \in DOMAIN appendLog : ~appendLog[i].persist

\* The number of most recent messages of Memory that are assistant messages
\* with the same non-empty content as the last message.
RECURSIVE RunLengthFrom(_)
RunLengthFrom(i) ==
    IF i < 1 THEN 0
    ELSE IF /\ memory[i].role = "assistant"
            /\ memory[i].content # <<>>
            /\ memory[i].content = Last(memory).content
         THEN 1 + RunLengthFrom(i - 1)
         ELSE 0

RunLength == RunLengthFrom(Len(memory))

\* The number of assistant messages of Memory with the content of the last one.
Occurrences ==
    Cardinality({i \in DOMAIN memory :
                    /\ memory[i].role = "assistant"
                    /\ memory[i].content = Last(memory).content})

\* C8 as stated: with duplicate_threshold = k, k most recent assistant
\* messages with the same non-empty content make is_stuck() true, and k - 1
\* such repetitions make it false.
C8_StuckAtThreshold ==
    /\ RunLength >= duplicate_threshold => is_stuck(memory)
    /\ RunLength = duplicate_threshold - 1 => ~is_stuck(memory)

\* C8 as amended: k + 1 most recent assistant messages with the same
\* non-empty content make is_stuck() true; k such messages, when Memory holds
\* no other assistant message with that content, make it false.
C8_StuckAboveThreshold ==
    /\ RunLength >= duplicate_threshold + 1 => is_stuck(memory)
    /\ (RunLength = duplicate_threshold /\ Occurrences = duplicate_threshold)
          => ~is_stuck(memory)

\* is_stuck() was called and returned true on k + 1 repetitions.
C8_Witness ==
    /\ event.op = "is_stuck"
    /\ event.flag
    /\ RunLength = duplicate_threshold + 1


UserRequest(m, request) ==
    m.role = "user" /\ m.content = request

\* C5: run(request) with max_steps = 0 executes no step, adds exactly one
\* message to Memory, the user request, invokes the message hook exactly once,
\* for that message, and returns a string.
C5_ZeroStepRun ==
    (event.op \in {"run_return", "run_raise"} /\ max_steps = 0 /\ entry.request # <<>>) =>
        /\ event.op = "run_return"
        /\ stepsRun = 0
        /\ Len(appendLog) = entry.log + 1
        /\ Len(memory) = entry.log + 1
        /\ UserRequest(Last(memory), entry.request)
        /\ Len(hookCalls) = entry.hook + 1
        /\ UserRequest(Last(hookCalls), entry.request)
        /\ event.value # <<>>

\* A fresh agent with max_steps = 0 has returned from run(request).
C5_Witness ==
    /\ event.op = "run_return"
    /\ max_steps = 0
    /\ entry.request # <<>>
    /\ entry.log = 0
    /\ Len(memory) = 1
    /\ Len(hookCalls) = 1

\* C6: run() returns the newline-joined trace of its result lines, and the
\* 'No steps executed' sentinel whenever the loop body never ran.
C6_SentinelWhenNoStepRan ==
    event.op = "run_return" =>
        IF stepsRun = 0
        THEN event.value = NO_STEPS
        ELSE event.value = Join(results, <<NL>>)

\* The run ended with the max-steps termination.
MaxStepsTermination ==
    /\ results # <<>>
    /\ Last(results) = TerminatedLine(max_steps)
    /\ current_step = 0
    /\ state = "IDLE"

\* C7: a run ends with the max-steps termination (counter reset to 0, state
\* IDLE, 'Terminated: Reached max steps (N)' as last trace line) exactly when
\* the loop ended without the state having reached FINISHED.
C7_TerminationIffNotFinished ==
    event.op = "loop_exit" => (MaxStepsTermination <=> ~event.flag)

\* The names that match the special-tool set without regard to case.
SpecialByName(name) == Lower(name) \in {"terminate", "finish"}

ToolMessage(m, command, content) ==
    /\ m.role = "tool"
    /\ m.content = content
    /\ m.name = command.name
    /\ m.tool_call_id = command.id

\* C9: in every iteration of act()'s loop, a special tool (by case-insensitive
\* name) that was executed and returned sets the state to FINISHED, and the
\* result of a special call is neither appended to Memory nor passed to the
\* hook; the result of a non-special call is appended to Memory and passed to
\* the hook as a tool message with that call's tool_call_id and name.
C9_SpecialToolHandling ==
    [][event'.op = "act_tool" =>
          LET command == tool_calls[actIdx]
          IN  IF SpecialByName(command.name)
              THEN /\ event'.flag => state' = "FINISHED"
                   /\ UNCHANGED <<memory, hookCalls>>
              ELSE /\ Len(memory') = Len(memory) + 1
                   /\ ToolMessage(Last(memory'), command, event'.value)
                   /\ Len(hookCalls') = Len(hookCalls) + 1
                   /\ ToolMessage(Last(hookCalls'), command, event'.value)
                   /\ state' = state]_vars

\* The special tool registered as "Finish" was executed and the state is
\* FINISHED; Memory and the hook log hold the result of a bash call and no
\* result of "Finish".
C9_Witness ==
    /\ state = "FINISHED"
    /\ \E i \in DOMAIN toolLog : toolLog[i].name = "Finish"
    /\ \E i \in DOMAIN memory : memory[i].role = "tool" /\ memory[i].name = "bash"
    /\ \E i \in DOMAIN hookCalls : hookCalls[i].role = "tool" /\ hookCalls[i].name = "bash"
    /\ \A i \in DOMAIN memory : memory[i].name # "Finish"
    /\ \A i \in DOMAIN hookCalls : hookCalls[i].name # "Finish"

\* C10: a call to a registered non-special tool with unparsable JSON arguments
\* does not invoke the tool and does not end the run: act() records one tool
\* message whose content begins with 'Error', with the call's name and
\* tool_call_id, and goes on with the next tool call.
C10_BadJsonIsAnObservation ==
    [][(/\ pc = "act" /\ actIdx \in DOMAIN tool_calls
        /\ event'.op \in {"act_tool", "run_raise"}
        /\ tool_calls[actIdx].name \in available_tools
        /\ ~SpecialByName(tool_calls[actIdx].name)
        /\ tool_calls[actIdx].arguments \notin {"", "{}"}) =>
          LET command == tool_calls[actIdx]
          IN  /\ toolLog' = toolLog
              /\ Len(memory') = Len(memory) + 1
              /\ ToolMessage(Last(memory'), command, event'.value)
              /\ event'.op = "act_tool"
              /\ event'.value[1] = ERROR_PREFIX
              /\ state' = state
              /\ IF actIdx < Len(tool_calls)
                 THEN pc' = "act" /\ actIdx' = actIdx + 1
                 ELSE pc' = "loop"]_vars

\* An 'Error' observation for unparsable arguments is in Memory, followed by
\* the result of the next call of the same turn, which was executed.
C10_Witness ==
    \E i \in DOMAIN memory :
        /\ i < Len(memory)
        /\ memory[i].role = "tool"
        /\ memory[i].content[1] = ERROR_PREFIX
        /\ Len(memory[i].content) > 1
        /\ memory[i].content[2] = "Error parsing arguments for "
        /\ memory[i + 1].role = "tool"
        /\ memory[i + 1].tool_call_id = memory[i].tool_call_id + 1
        /\ \E j \in DOMAIN toolLog : toolLog[j].id = memory[i + 1].tool_call_id

\* C11: execute_tool never raises.  Every tool call of a turn ends in an
\* observation and no exception leaves act() or run(); a call whose tool is
\* unknown or whose arguments are malformed invokes nothing, and a call that
\* did not complete (unknown tool, malformed arguments, the tool raised)
\* yields an observation that begins with 'Error'.
C11_ExecuteToolNeverRaises ==
    [][(/\ pc = "act" /\ actIdx \in DOMAIN tool_calls
        /\ event'.op \in {"act_tool", "run_raise"}) =>
          LET command == tool_calls[actIdx]
              rejected == \/ command.name \notin available_tools
                          \/ command.arguments \notin {"", "{}"}
          IN  /\ event'.op = "act_tool"
              /\ event'.value # <<>>
              /\ rejected => (~event'.flag /\ toolLog' = toolLog)
              /\ ~event'.flag => event'.value[1] = ERROR_PREFIX]_vars

\* A registered tool was invoked and raised, and act() recorded the failure
\* as an 'Error' observation.
C11_Witness ==
    /\ event.op = "act_tool"
    /\ ~event.flag
    /\ event.name \in available_tools
    /\ event.value[1] = ERROR_PREFIX
    /\ toolLog # <<>>
    /\ Last(toolLog).name = event.name
    /\ \E i \in DOMAIN memory :
          /\ memory[i].role = "tool"
          /\ memory[i].tool_call_id = Last(toolLog).id
          /\ memory[i].content[1] = ERROR_PREFIX

\* C12: under tool-choice policy NONE the tool calls of a response are
\* ignored: no step of the run invokes a tool or appends a tool-role message;
\* and when think() returns for a response, it signals 'continue' exactly when
\* the response had content, which is then appended as one persisted assistant
\* message without tool calls, and otherwise appends no assistant message.
C12_NonePolicyIgnoresToolCalls ==
    [][tool_choices = "none" =>
          /\ toolLog' = toolLog
          /\ \A i \in (Len(appendLog) + 1)..Len(appendLog') :
                appendLog'[i].role # "tool"
          /\ (pc = "think" /\ event'.op = "think" /\ event'.name = "response") =>
                /\ event'.flag = (event'.value # <<>>)
                /\ IF event'.value # <<>>
                   THEN /\ Last(appendLog') =
                             Message("assistant", event'.value, TRUE, NoKw)
                        /\ Last(hookCalls') =
                             HookCall("assistant", event'.value, NoKw)
                   ELSE \A i \in (Len(appendLog) + 1)..Len(appendLog') :
                           appendLog'[i].role # "assistant"]_vars

\* C13: a failure during think() other than the token-limit condition is
\* caught: think() neither raises out of step() and run() nor decides to act;
\* it appends one persisted assistant message that records the failure and
\* the step ends with the agent state unchanged.
C13_ThinkFailureIsCaught ==
    [][(pc = "think" /\ event'.op \in {"think", "run_raise"}) =>
          /\ event'.op = "think"
          /\ event'.name \notin {"response", "token_limit"} =>
                /\ ~event'.flag
                /\ Len(appendLog') > Len(appendLog)
                /\ Last(appendLog').role = "assistant"
                /\ Last(appendLog').persist
                /\ Last(appendLog').content # <<>>
                /\ Last(hookCalls').content = Last(appendLog').content
                /\ toolLog' = toolLog
                /\ state' = state
                /\ pc' = "loop"]_vars

\* think() caught the failure of a missing LLM response: the failure is the
\* last message of Memory, an assistant message, and no tool was executed.
C13_Witness ==
    /\ event.op = "think"
    /\ event.name = "no_response"
    /\ ~event.flag
    /\ Last(memory).role = "assistant"
    /\ Last(memory).content = THINK_ERROR_MSG
    /\ Last(hookCalls).content = THINK_ERROR_MSG
    /\ toolLog = <<>>
    /\ state = "RUNNING"

\* C14: when the LLM request fails with a retry-wrapped token-limit failure,
\* think() does not raise; in that step exactly one message is recorded for
\* the failure, a persisted assistant message handed to the hook, the state
\* becomes FINISHED and no tool is executed; and the run loop executes no
\* further step: the next thing the run does is leave the loop.
C14_TokenLimitEndsRun ==
    [][/\ (/\ pc = "think" /\ event'.op \in {"think", "run_raise"}
           /\ event'.name = "token_limit") =>
             /\ event'.op = "think"
             /\ ~event'.flag
             /\ Last(appendLog') = Message("assistant", TOKEN_LIMIT_MSG, TRUE, NoKw)
             /\ \A i \in (Len(appendLog) + 1)..(Len(appendLog') - 1) :
                   ~appendLog'[i].persist
             /\ hookCalls' = Append(hookCalls,
                                    HookCall("assistant", TOKEN_LIMIT_MSG, NoKw))
             /\ state' = "FINISHED"
             /\ toolLog' = toolLog
             /\ pc' = "loop"
       /\ (event.op = "think" /\ event.name = "token_limit") =>
             /\ event'.op = "loop_exit"
             /\ stepsRun' = stepsRun /\ toolLog' = toolLog]_vars

\* The token-limit message is the last message of Memory, the run has left
\* its loop after that step and no tool was executed.
C14_Witness ==
    /\ event.op = "loop_exit"
    /\ event.flag
    /\ stepsRun = 1
    /\ Last(memory) = Message("assistant", TOKEN_LIMIT_MSG, TRUE, NoKw)
    /\ Last(hookCalls).content = TOKEN_LIMIT_MSG
    /\ toolLog = <<>>

\* C15: under REQUIRED policy a response without tool calls is a hard error:
\* think() does not raise, appends the content, if any, as a persisted
\* assistant message and decides to act; act() then executes no tool, appends
\* no message (no nudge) and raises the 'tool calls required' error, which is
\* the exception that leaves run().
C15_RequiredWithoutCallsIsAnError ==
    [][tool_choices = "required" =>
          /\ (/\ pc = "think" /\ event'.op \in {"think", "run_raise"}
              /\ event'.name = "response" /\ tool_calls' = <<>>) =>
                /\ event'.op = "think"
                /\ event'.flag
                /\ pc' = "act"
                /\ IF event'.value # <<>>
                   THEN /\ Last(appendLog') =
                             Message("assistant", event'.value, TRUE, NoKw)
                        /\ Last(hookCalls') =
                             HookCall("assistant", event'.value, NoKw)
                   ELSE hookCalls' = hookCalls
          /\ (pc = "act" /\ tool_calls = <<>>) =>
                /\ event'.op = "run_raise"
                /\ event'.raised = "ValueError"
                /\ toolLog' = toolLog
                /\ appendLog' = appendLog /\ memory' = memory
                /\ hookCalls' = hookCalls]_vars

\* run() was left with the 'tool calls required' error after think() had
\* persisted the content of a response without tool calls; no nudge was
\* appended and no tool was executed.
C15_Witness ==
    /\ tool_choices = "required"
    /\ event.op = "run_raise"
    /\ event.raised = "ValueError"
    /\ tool_calls = <<>>
    /\ Last(memory).role = "assistant"
    /\ Last(memory).content = <<"a">>
    /\ Last(hookCalls).content = <<"a">>
    /\ \A i \in DOMAIN memory : memory[i].content # NUDGE
    /\ toolLog = <<>>

AnswersCall(m, id) == m.role = "tool" /\ m.tool_call_id = id

\* C19: within one step the tool calls are executed one after another in the
\* order the model listed them.  When the k-th call of a turn starts, every
\* earlier non-special call of the turn has its result in Memory and no later
\* call has been invoked or answered; the step invokes at most the k-th call
\* and answers only it.  Memory order matches: an assistant message that
\* carries a call comes before the tool message answering it, and tool
\* messages are in call order.
C19_ToolCallsAreSequential ==
    [][(pc = "act" /\ actIdx \in DOMAIN tool_calls) =>
          LET command == tool_calls[actIdx]
          IN  /\ \A j \in 1..(actIdx - 1) :
                    ~SpecialByName(tool_calls[j].name) =>
                        \E i \in DOMAIN memory : AnswersCall(memory[i], tool_calls[j].id)
              /\ \A j \in actIdx..Len(tool_calls) :
                    /\ \A i \in DOMAIN toolLog : toolLog[i].id # tool_calls[j].id
                    /\ \A i \in DOMAIN memory : ~AnswersCall(memory[i], tool_calls[j].id)
              /\ \/ toolLog' = toolLog
                 \/ toolLog' = Append(toolLog, [id |-> command.id, name |-> command.name])
              /\ \A i \in (Len(appendLog) + 1)..Len(appendLog') :
                    /\ AnswersCall(appendLog'[i], command.id)
                    /\ Last(memory') = appendLog'[i]
              /\ \A i, j \in DOMAIN memory' :
                    /\ (/\ memory'[i].role = "assistant"
                        /\ \E k \in DOMAIN memory'[i].tool_calls :
                              AnswersCall(memory'[j], memory'[i].tool_calls[k].id))
                          => i < j
                    /\ (/\ i < j /\ memory'[i].role = "tool" /\ memory'[j].role = "tool")
                          => memory'[i].tool_call_id < memory'[j].tool_call_id]_vars

\* Memory holds an assistant message with two tool calls directly followed by
\* the two tool messages that answer them, in call order, and the second call
\* was invoked.
C19_Witness ==
    \E i \in DOMAIN memory :
        /\ i + 2 \in DOMAIN memory
        /\ memory[i].role = "assistant"
        /\ Len(memory[i].tool_calls) = 2
        /\ AnswersCall(memory[i + 1], memory[i].tool_calls[1].id)
        /\ AnswersCall(memory[i + 2], memory[i].tool_calls[2].id)
        /\ \E j \in DOMAIN toolLog : toolLog[j].id = memory[i].tool_calls[2].id

Root == RStrip(Replace(work_dir, BSL, SEP), SEP)

UnderRoot(p) == p = Root \/ StartsWith(p, Root \o <<SEP>>)

\* C17: the path mapping of either interface, _map_to_workspace and
\* _to_sandbox_path, is idempotent and maps every input path, the empty path
\* included, to the work directory or to a path that starts with the work
\* directory followed by '/'.
C17_MappingIsIdempotentUnderRoot ==
    fsop.op = "map" =>
        /\ MapOf(via, fsop.out) = fsop.out
        /\ UnderRoot(fsop.out)

\* A legacy '/workspace/...' path with backslashes was mapped under a work
\* directory configured with a trailing '/', and mapping the result again
\* changes nothing.
C17_Witness ==
    /\ fsop.op = "map"
    /\ work_dir = <<SEP, "home", SEP>>
    /\ fsop.path = <<BSL, "workspace", BSL>>
    /\ fsop.out = <<SEP, "home">>
    /\ MapOf(via, fsop.out) = fsop.out


\* The last content stored by a write to the caller's path.
LastWritten == written[Len(written)]

\* Paths that name the file written at p: p itself, its mapped form, and
\* every path with the same mapped form.
NamesSameFile(q, p) ==
    \/ q = p
    \/ q = MapOf(via, p)
    \/ MapOf(via, q) = MapOf(via, p)

\* C18: after a successful write of content c to a path p, a read of p, of
\* map(p) or of any other path q with map(q) = map(p) returns exactly c, the
\* content of the latest write to that mapped path.
C18_ReadReturnsWrittenContent ==
    (fsop.op = "read" /\ written # <<>> /\ NamesSameFile(fsop.path, LastWritten.path))
        => fsop.out = LastWritten.content

\* Through the file operator, a path was written twice and then read under
\* a third spelling, neither the written path nor its mapped form, and the
\* read returned the content of the second write.
C18_Witness ==
    /\ fsop.op = "read"
    /\ via = "operator"
    /\ Len(written) = 2
    /\ fsop.path \notin {LastWritten.path, MapOf(via, LastWritten.path)}
    /\ MapOf(via, fsop.path) = MapOf(via, LastWritten.path)
    /\ fsop.out = LastWritten.content
    /\ fsop.out # written[1].content


\* C22: a failure of the notification sink never affects the control loop:
\* no operation of a run - run(), think(), act(), execute_tool(), cleanup() -
\* raises the sink's failure, and run() does not raise because of it.
C22_NotificationFailureIsSwallowed == event.raised # "NotifyError"

\* The 'agent.step' notification of the first loop iteration failed: the
\* step counter was advanced, step() was never called and the sink's failure
\* left run().
C22_Witness ==
    /\ event.op = "run_raise"
    /\ event.raised = "NotifyError"
    /\ entry.step = 0
    /\ current_step = 1
    /\ stepsRun = 0
    /\ event.cleanup


\* C30: the file operator applies the same path canonicalization as the
\* sandbox client: for every input path _to_sandbox_path and
\* _map_to_workspace return the same result, and mapping the file operator's
\* result again in the client leaves it unchanged.
C30_OperatorMapsLikeClient ==
    fsop.op = "map" =>
        /\ _to_sandbox_path(fsop.path) = _map_to_workspace(fsop.path)
        /\ _map_to_workspace(_to_sandbox_path(fsop.path)) = _to_sandbox_path(fsop.path)

\* On a Windows host a drive-rooted path outside the workspace root was
\* mapped, and both functions put its last name under the work directory.
C30_Witness ==
    /\ fsop.op = "map"
    /\ host = "windows"
    /\ fsop.path = <<DRIVE, BSL, "workspace">>
    /\ _to_sandbox_path(fsop.path) = RStrip(work_dir, SEP) \o <<SEP, "workspace">>
    /\ _map_to_workspace(fsop.path) = _to_sandbox_path(fsop.path)


\* C23: cleanup() of the sandbox client is safe in every state: it raises
\* nothing; after it the client holds no session handle, also when the
\* remote delete failed; and called with no session - creation never
\* happened, creation failed, or a cleanup ran before - it changes no remote
\* environment.
C23_CleanupIsSafe ==
    [][fsop'.op = "cleanup" =>
          /\ fsop'.raised = "none"
          /\ session' = 0
          /\ ~daytona'
          /\ session = 0 => envs' = envs]_vars

\* A cleanup dropped the handle of an environment whose remote delete
\* failed: the environment is still live and the client holds no session.
C23_Witness ==
    /\ fsop.op = "cleanup"
    /\ fsop.held # 0
    /\ envs[fsop.held] = "live"
    /\ session = 0
    /\ ~daytona


\* The process.exec call that produced the result run_command returned
Executed == fsop.execs[Len(fsop.execs)]

\* A call anchored to the working directory: cwd passed, or the command
\* prefixed by 'cd <work_dir> &&'
Anchored(call) ==
    \/ call.cwd = work_dir
    \/ StartsWith(call.cmd, <<"cd ">> \o Quote(work_dir) \o <<" && ">>)

\* C24: every command run_command reports as executed ran anchored to the
\* working directory: whenever run_command returns the result of an
\* execution, that execution was given the working directory as cwd or its
\* command was prefixed by a 'cd <work_dir>' step.
C24_CommandsRunInWorkDir ==
    (fsop.op = "run_command" /\ fsop.raised = "none" /\ fsop.execs # <<>>)
        => Anchored(Executed)

\* The primary execution failed and the shell-composed fallback, prefixed
\* by 'cd <work_dir> &&' and called without cwd, produced the result.
C24_Witness ==
    /\ fsop.op = "run_command"
    /\ fsop.raised = "none"
    /\ Len(fsop.execs) = 2
    /\ Executed.cwd = <<>>
    /\ Executed.cmd = <<"cd ">> \o work_dir \o <<" && ", "ls">>
    /\ fsop.out = Output(<<"ls">>)


\* s contains sub as a substring
Contains(s, sub) ==
    \E i \in 1..(Len(s) - Len(sub) + 1) : SubSeq(s, i, i + Len(sub) - 1) = sub

\* The shell-composed fallback: the command after 'cd <work_dir> &&',
\* called without cwd
IsFallback(call, command) ==
    call = Exec(<<"cd ">> \o Quote(work_dir) \o <<" && ">> \o command, <<>>)

\* C25: run_command raises only when the primary execution and the
\* shell-composed fallback have both failed, and the error then names the
\* attempted command and the working directory; with no session it raises
\* 'not initialized' at once, without attempting any execution.
C25_RunCommandRaisesAfterFallback ==
    (fsop.op = "run_command" /\ fsop.raised # "none") =>
        IF fsop.held = 0
        THEN fsop.msg = NOT_INITIALIZED /\ fsop.execs = <<>>
        ELSE /\ Len(fsop.execs) >= 2
             /\ fsop.execs[1] = Exec(fsop.command, work_dir)
             /\ IsFallback(fsop.execs[Len(fsop.execs)], fsop.command)
             /\ \A i \in 1..Len(fsop.execs) : fsop.sdk[i] # "ok"
             /\ Contains(fsop.msg, fsop.command)
             /\ Contains(fsop.msg, work_dir)

\* The execution with cwd failed, the fallback 'cd <work_dir> && ls' failed
\* as well, and run_command raised an error naming 'ls' and the directory.
C25_Witness ==
    /\ fsop.op = "run_command"
    /\ fsop.held # 0
    /\ fsop.raised = "RuntimeError"
    /\ fsop.sdk = <<"error", "error">>
    /\ Len(fsop.execs) = 2
    /\ fsop.msg = <<"Failed to execute command in sandbox (cwd=", "/", "home",
                    "): ", "ls", ". Error: ", "e2">>


\* C26: write_file verifies after writing that the target exists and falls
\* back to another write strategy when the check reports it missing: it
\* never returns successfully while its own post-write check observed the
\* target as missing.
C26_WriteIsVerified ==
    (fsop.op = "write" /\ fsop.raised = "none") => fsop.check # "MISSING"

\* A write through the client stored its content and returned after its
\* post-write check observed the target.
C26_Witness ==
    /\ fsop.op = "write"
    /\ via = "client"
    /\ fsop.raised = "none"
    /\ fsop.stored
    /\ fsop.check = "EXISTS"
    /\ Decode(files[_map_to_workspace(fsop.path)]) = fsop.out


\* C28: reading a path that does not exist in the sandbox surfaces an error
\* to the caller, a tool error through the file operator, once the fallback
\* chain is exhausted: a read of a missing file never succeeds with content
\* such as the empty string.
C28_MissingFileReadFails ==
    (fsop.op = "read" /\ fsop.missing) =>
        /\ fsop.raised # "none"
        /\ (via = "operator" /\ fsop.held # 0) => fsop.raised = "ToolError"

\* Through the file operator a missing file was read in a session whose
\* process calls all fail: the fallback 'cat' raised and the caller got a
\* tool error naming the path.
C28_Witness ==
    /\ fsop.op = "read"
    /\ via = "operator"
    /\ fsop.held # 0
    /\ fsop.missing
    /\ fsop.raised = "ToolError"
    /\ StartsWith(fsop.msg, <<"Failed to read ">> \o fsop.path)


\* The environments provisioned and not deleted
Live == {i \in DOMAIN envs : envs[i] = "live"}

\* C29: at most one sandbox session is live per client, created lazily on
\* first use: a new remote environment is provisioned only when no
\* environment provisioned before is still undeleted, and a file operation
\* or a command issued while a session exists reuses it.
C29_OneSessionAtATime ==
    [][/\ Len(envs') > Len(envs) => Live = {}
       /\ (session # 0 /\ fsop'.op \in {"read", "write", "run_command"})
             => (envs' = envs /\ session' = session)
       /\ (session # 0 /\ fsop'.op = "bash" /\ ~fsop'.restart)
             => (envs' = envs /\ session' = session)]_vars

\* After a cleanup whose remote delete succeeded, a file operation of the
\* file operator found no session and created the second environment, the
\* only live one.
C29_Witness ==
    /\ fsop.op \in {"read", "write"}
    /\ via = "operator"
    /\ fsop.held = 0
    /\ envs = <<"deleted", "live">>
    /\ session = 2
    /\ Live = {2}


\* C21: one agent instance executes one run at a time: a run() invoked while
\* another invocation has been entered and has not returned - also while that
\* one awaits its pending persistence after the loop - is rejected by the
\* IDLE-state precondition.
C21_OneRunAtATime ==
    [][(pc # "idle" /\ event'.op \in {"run_start", "run_reject", "run_overlap"})
          => (event'.op = "run_reject" /\ event'.raised = "RuntimeError")]_vars

\* A run() invoked while the run in progress awaited the LLM was rejected
\* with a RuntimeError and changed nothing.
C21_Witness ==
    /\ event.op = "run_reject"
    /\ event.raised = "RuntimeError"
    /\ pc = "think"
    /\ state = "RUNNING"
    /\ Len(memory) = Len(appendLog)

\* C27: whenever a run has ended, by return or by exception, the cleanup of
\* every tool of the registry that exposes one has been awaited, in the
\* order of the registry, whether or not an earlier cleanup failed.
C27_EveryToolIsCleanedUp ==
    event.op \in {"run_return", "run_raise", "run_reject"}
        => /\ Len(event.cleaned) = Cardinality(HasCleanup)
           /\ \A n \in HasCleanup :
                \E i \in DOMAIN event.cleaned : event.cleaned[i].tool = n

\* A run ended by an exception of its own, the cleanup of "Finish" failed
\* and the cleanup of "bash" was awaited after it.
C27_Witness ==
    /\ event.op = "run_raise"
    /\ event.raised # "NotifyError"
    /\ event.cleaned = <<[tool |-> "Finish", failed |-> TRUE],
                         [tool |-> "bash", failed |-> FALSE]>>

\* The tool message at position i of Memory answers a call that an assistant
\* message at an earlier position lists.
Correlated(i) ==
    \E j \in 1..(i - 1) :
        /\ memory[j].role = "assistant"
        /\ \E k \in DOMAIN memory[j].tool_calls :
              memory[j].tool_calls[k].id = memory[i].tool_call_id

\* C31: every tool message in Memory carries a name and a tool_call_id, and
\* the tool_call_id is the id of a call listed by an assistant message that
\* stands earlier in Memory, under every tool-choice policy.
C31_ToolMessagesAreCorrelated ==
    \A i \in DOMAIN memory :
        memory[i].role = "tool"
            => /\ memory[i].name # ""
               /\ memory[i].tool_call_id # 0
               /\ Correlated(i)

\* A turn of non-special calls only: its tool message follows the assistant
\* message that lists the call.
C31_Witness ==
    /\ event.op = "act_tool"
    /\ memory # <<>>
    /\ Last(memory).role = "tool"
    /\ Last(memory).name = "bash"
    /\ Correlated(Len(memory))

\* C32: compaction keeps the number and order of the messages of Memory and
\* the role, name and tool_call_id of each, changes only the content of tool
\* messages named 'read' or 'web_search' with more than 1000 characters, and
\* adds no message to the durable history, where every invocation of the
\* persistence hook stores one message.
C32_CompactionOnlyClipsContent ==
    [][event'.op = "compact"
          => /\ Len(memory') = Len(memory)
             /\ \A i \in DOMAIN memory :
                   /\ [memory'[i] EXCEPT !.content = memory[i].content] = memory[i]
                   /\ memory'[i] # memory[i]
                         => /\ memory[i].role = "tool"
                            /\ memory[i].name \in {"read", "web_search"}
                            /\ CharLen(memory[i].content) > 1000
             /\ Len(hookCalls') = Len(hookCalls)]_vars

\* Compaction clipped a 'read' result and handed it to the persistence hook,
\* which had stored the unclipped result before.
C32_Witness ==
    /\ event.op = "compact"
    /\ \E i \in DOMAIN memory, j \in DOMAIN hookCalls :
          /\ memory[i].name = "read"
          /\ memory[i].content = CleanRead(ManyLines)
          /\ memory[i].content # ManyLines
          /\ j < Len(hookCalls)
          /\ hookCalls[j].tool_call_id = memory[i].tool_call_id
          /\ hookCalls[j].content = ManyLines
          /\ Last(hookCalls).tool_call_id = memory[i].tool_call_id
          /\ Last(hookCalls).content = memory[i].content

\* The number of times the corrective instruction occurs in next_step_prompt.
StuckInstructions ==
    Cardinality({i \in DOMAIN next_step_prompt : <<next_step_prompt[i]>> = STUCK_PROMPT})

\* C33: however often the stuck condition is detected during a run, the
\* corrective instruction occurs at most once in next_step_prompt.
C33_StuckInstructionOnce == StuckInstructions <= 1

\* The stuck condition was detected in two steps of one run.
C33_Witness ==
    /\ pc = "loop"
    /\ stepsRun = 3
    /\ StuckInstructions = 2
    /\ state = "RUNNING"

\* Every step of the run so far was answered with content and no tool call
\* (the LLM has one such answer, so the content is the same in each).
SameAnswerEveryStep ==
    /\ Len(results) = stepsRun
    /\ \A i \in DOMAIN results : results[i] = StepLine(i, GUIDANCE_ADDED)

\* C34: under AUTO policy, once the LLM has answered duplicate_threshold + 1
\* steps of a run with the same non-empty content and no tool calls, the
\* stuck condition has been detected and the corrective instruction is in
\* next_step_prompt.
C34_RepeatedAnswerIsDetected ==
    (/\ tool_choices = "auto"
     /\ pc = "loop"
     /\ stepsRun >= duplicate_threshold + 1
     /\ SameAnswerEveryStep)
        => StuckInstructions >= 1

\* Three steps answered with the same content and no tool call, with a
\* threshold of one.
C34_Witness ==
    /\ tool_choices = "auto"
    /\ pc = "loop"
    /\ duplicate_threshold = 1
    /\ stepsRun = 3
    /\ SameAnswerEveryStep
    /\ Cardinality({i \in DOMAIN memory :
                       memory[i].role = "assistant" /\ memory[i].content = <<"a">>}) = 3

\* C35: at the entry of every run() the step counter is 0, so the run has
\* its full budget of max_steps steps.
C35_RunStartsWithFullBudget ==
    event.op = "run_start" => entry.step = 0

\* A second run is entered after a run that a special tool ended on its
\* first step.
C35_Witness ==
    /\ event.op = "run_start"
    /\ toolLog # <<>>
    /\ _is_special_tool(Last(toolLog).name)
    /\ Len(results) = 0
    /\ max_steps = 2
    /\ state = "RUNNING"

\* C36: whenever a run has ended, by return or by an exception out of a
\* step, the sandbox session was released and no persistence task the agent
\* tracks is still pending.
C36_FailedRunReleasesToo ==
    event.op \in {"run_return", "run_raise"}
        => /\ event.release
           /\ pending(pending_persist_tasks) = <<>>

\* A run ended by the exception of a failed LLM request while the task that
\* persists its request was pending, and without releasing the sandbox.
C36_Witness ==
    /\ event.op = "run_raise"
    /\ event.raised \in {"ValueError", "Exception"}
    /\ ~event.release
    /\ pending(pending_persist_tasks) # <<>>
    /\ pc = "idle"

\* C37: a session provisioned by a create() without a conversation id, on a
\* client whose session cleanup() has just released (called by itself or by
\* a restart of Bash), is provisioned with the volume and the recorded files
\* of no conversation.
C37_NoBindingAcrossSessions ==
    [][(/\ Len(envs') > Len(envs)
        /\ fsop'.op = "create" => fsop'.given = ""
        /\ fsop.op = "cleanup" \/ (fsop'.op = "bash" /\ fsop'.restart))
          => binding'.attached = ""]_vars

\* Bash restarted the session of a client once created for a conversation:
\* the new session holds the files recorded for that conversation.
C37_Witness ==
    /\ fsop.op = "bash"
    /\ fsop.restart
    /\ fsop.raised = "none"
    /\ session = 2
    /\ binding.attached = "conv"
    /\ files = ConversationFiles("conv")

\* The process.exec calls of the last run_command that the SDK did not
\* reject for their arguments, and so reached the sandbox.
Reached == {i \in DOMAIN fsop.execs : fsop.sdk[i] # "TypeError"}

\* C38: one run_command executes the command in the sandbox at most once,
\* and takes the shell-composed fallback only after the SDK rejected the
\* arguments of the primary call, not after a call that reached the sandbox
\* and failed there.
C38_FallbackOnlyOnSignatureMismatch ==
    (fsop.op = "run_command" /\ fsop.execs # <<>>)
        => /\ Cardinality(Reached) <= 1
           /\ IsFallback(Executed, fsop.command) => fsop.sdk[1] = "TypeError"

\* The primary call reached the sandbox and failed there, and run_command
\* returned what the fallback printed.
C38_Witness ==
    /\ fsop.op = "run_command"
    /\ fsop.sdk = <<"error", "ok">>
    /\ fsop.raised = "none"
    /\ Len(fsop.execs) = 2
    /\ fsop.execs[1] = Exec(fsop.command, work_dir)
    /\ IsFallback(fsop.execs[2], fsop.command)

\* The names of a POSIX path: '/' separates, repeated separators count
\* once, adjacent name tokens are one name.
RECURSIVE PosixNames(_, _)
PosixNames(s, n) ==
    IF n = 0 THEN <<>>
    ELSE LET before == PosixNames(s, n - 1)
         IN  IF s[n] = SEP THEN before
             ELSE IF n > 1 /\ s[n - 1] # SEP
             THEN [before EXCEPT ![Len(before)] = Append(@, s[n])]
             ELSE Append(before, <<s[n]>>)

\* The names that remain after resolving '.' and '..' from the root: '.'
\* stays, '..' goes up one directory and stays at the root.
RECURSIVE Resolved(_, _)
Resolved(names, at) ==
    IF names = <<>> THEN at
    ELSE IF Head(names) = <<".">> THEN Resolved(Tail(names), at)
    ELSE IF Head(names) = <<"..">>
    THEN Resolved(Tail(names), IF at = <<>> THEN at ELSE SubSeq(at, 1, Len(at) - 1))
    ELSE Resolved(Tail(names), Append(at, Head(names)))

\* The location an absolute POSIX path denotes
Location(p) == Resolved(PosixNames(p, Len(p)), <<>>)

\* C39: for every input path, '..' segments included, the location the
\* mapped path denotes once '.' and '..' are resolved is the working
\* directory or below it.
C39_MappedPathStaysInside ==
    fsop.op = "map"
        => /\ StartsWith(fsop.out, <<SEP>>)
           /\ StartsWith(Location(fsop.out), Location(Root))

\* The path '../x' was mapped to '<work_dir>/../x', which denotes a location
\* beside the working directory.
C39_Witness ==
    /\ fsop.op = "map"
    /\ path = <<"..", SEP, "x">>
    /\ fsop.out = RStrip(work_dir, SEP) \o <<SEP, "..", SEP, "x">>
    /\ ~StartsWith(Location(fsop.out), Location(Root))


\* C40: once the state has become FINISHED during a run, no further tool
\* call is executed in that run: the calls listed after a special tool in
\* the same turn are not executed and no later step runs.
C40_NothingRunsAfterFinished ==
    [][(state = "FINISHED" /\ pc # "idle")
        => (toolLog' = toolLog /\ stepsRun' = stepsRun)]_vars

\* A turn listed a special tool and then another tool; the special tool
\* finished the run and the other tool was executed all the same.
C40_Witness ==
    /\ event.op = "act_tool"
    /\ state = "FINISHED"
    /\ Len(toolLog) >= 2
    /\ _is_special_tool(toolLog[Len(toolLog) - 1].name)
    /\ ~_is_special_tool(toolLog[Len(toolLog)].name)

====
